---- MODULE Spec2Model ----
(***************************************************************************)
(* A model of mendeley-backup: the reconciliation engine of                *)
(* BackupWorker.execute, the orphan sweep, the per-document file handling, *)
(* the Backup State and Document Record stores, the Action Log and the     *)
(* path pattern engine.                                                    *)
(*                                                                         *)
(* Strings are sequences of one-character strings, so that formatting,     *)
(* sanitation and path splitting are computed as the code computes them.   *)
(* A location on disk is a sequence of path components relative to the     *)
(* backup location.                                                        *)
(***************************************************************************)
EXTENDS Integers, Sequences, FiniteSets, TLC

VARIABLES
    fs,                 \* the tree under backup_location: location -> node
    remote,             \* the remote library: document id -> document
    clock,              \* the time, advanced at every run start
    pc,                 \* position of execute(): idle, classify, loop, done, aborted
    backup_info,        \* the BackupInfo object of the current run
    new_backup_time,    \* execute(): new_backup_time
    history,            \* ActionHistory.actions: document id -> action
    removed_document_ids,   \* ids the removal loop still has to visit
    modified_document_ids,  \* ids the modified loop still has to visit
    new_document_ids,       \* ids the new loop still has to visit
    temporary_stored_documents, \* the dict, from the entry the last loop is at
    doc,                \* the loop variable doc of execute(): id last fetched
    run0,               \* the world when the current run started
    events,             \* what the current run printed or met
    runs,               \* number of runs started
    ops                 \* number of remote changes and disk interventions made

vars == <<fs, remote, clock, pc, backup_info, new_backup_time, history,
          removed_document_ids, modified_document_ids, new_document_ids,
          temporary_stored_documents, doc, run0, events, runs, ops>>

----------------------------------------------------------------------------
(* Bounds of the model *)

MaxRuns == 3
MaxOps == 2

----------------------------------------------------------------------------
(* Strings and paths *)

S1(c) == <<c>>
DotTemp == <<".", "t", "e", "m", "p">>
InfoJson == <<"i", "n", "f", "o", ".", "j", "s", "o", "n">>

Put(f, k, v) == [x \in DOMAIN f \cup {k} |-> IF x = k THEN v ELSE f[x]]
Drop(f, k) == [x \in DOMAIN f \ {k} |-> f[x]]
Range(f) == {f[x] : x \in DOMAIN f}

RECURSIVE Concat(_)
Concat(ss) == IF ss = <<>> THEN <<>> ELSE Head(ss) \o Concat(Tail(ss))

RECURSIVE JoinStr(_, _)
JoinStr(sep, ss) ==
    IF ss = <<>> THEN <<>>
    ELSE IF Len(ss) = 1 THEN ss[1]
    ELSE ss[1] \o sep \o JoinStr(sep, Tail(ss))

\* str.split('/') as pathlib does it for a relative path
RECURSIVE Split(_)
Split(s) ==
    IF s = <<>> THEN << <<>> >>
    ELSE LET rest == Split(Tail(s))
         IN  IF Head(s) = "/" THEN << <<>> >> \o rest
             ELSE <<(<<Head(s)>> \o Head(rest))>> \o Tail(rest)

\* pathlib.PurePath(s).parts: empty components and '.' components are dropped
Parts(s) == SelectSeq(Split(s), LAMBDA c : c # <<>> /\ c # S1("."))

\* str(path) of a relative pathlib path
PathStr(p) == JoinStr(S1("/"), p)

IsPrefix(p, q) == Len(p) <= Len(q) /\ SubSeq(q, 1, Len(p)) = p

\* pathlib.PurePath.is_relative_to
is_relative_to(p, other) == IsPrefix(other, p)

\* Path.joinpath(name)
joinpath(p, s) == p \o Parts(s)

Parent(p) == SubSeq(p, 1, Len(p) - 1)

----------------------------------------------------------------------------
(* The file system under backup_location.  The root is the empty location  *)
(* and always exists (execute() creates it first).                         *)

DirNode == [kind |-> "dir"]
FileNode(d) == [kind |-> "file", data |-> d]
Bytes(h) == [t |-> "bytes", hash |-> h]

exists(fsys, p) == p = <<>> \/ p \in DOMAIN fsys
is_dir(fsys, p) == p = <<>> \/ (p \in DOMAIN fsys /\ fsys[p].kind = "dir")
is_file(fsys, p) == p \in DOMAIN fsys /\ fsys[p].kind = "file"
iterdir(fsys, p) == {q \in DOMAIN fsys : Len(q) = Len(p) + 1 /\ IsPrefix(p, q)}
Subtree(fsys, p) == {q \in DOMAIN fsys : IsPrefix(p, q)}

\* shutil.rmtree(p), and Path.unlink / Path.rmdir of a leaf
rmtree(fsys, p) == [q \in DOMAIN fsys \ Subtree(fsys, p) |-> fsys[q]]
unlink(fsys, p) == [q \in DOMAIN fsys \ {p} |-> fsys[q]]

\* Path.mkdir(parents=True, exist_ok=True)
mkdir(fsys, p) ==
    LET new == {SubSeq(p, 1, i) : i \in 1..Len(p)} \ DOMAIN fsys
    IN  [q \in DOMAIN fsys \cup new |-> IF q \in new THEN DirNode ELSE fsys[q]]

\* os.rename(p, q) of an existing p onto a q that is absent (or an empty directory)
rename(fsys, p, q) ==
    LET moved == Subtree(fsys, p)
        Image(x) == q \o SubSeq(x, Len(p) + 1, Len(x))
        kept == DOMAIN fsys \ (moved \cup {q})
    IN  [x \in kept \cup {Image(y) : y \in moved} |->
            IF x \in kept THEN fsys[x]
            ELSE fsys[CHOOSE y \in moved : Image(y) = x]]

\* open(p, 'w') and write
write(fsys, p, d) == Put(fsys, p, FileNode(d))

----------------------------------------------------------------------------
(* bidict.bidict: a one-to-one dict.  b[k] = v raises ValueDuplicationError *)
(* when another key holds v, and replaces the value of k otherwise.        *)

Inverse(b) == Range(b)
InverseKey(b, v) == CHOOSE k \in DOMAIN b : b[k] = v
\* bidict.__setitem__ raises when another key holds the value
BidictRaises(b, k, v) == \E k2 \in DOMAIN b : k2 # k /\ b[k2] = v
BidictIsOneToOne(b) == \A k1, k2 \in DOMAIN b : b[k1] = b[k2] => k1 = k2

----------------------------------------------------------------------------
(* Formatting.py and BackupWorker._get_document_path *)

Unknown == <<"U", "n", "k", "n", "o", "w", "n">>
EtAl == <<" ", "e", "t", " ", "a", "l", ".">>

\* a faulty format_authors, which abbreviates from three authors on
FormatAuthorsEtAlFromThree(authors) ==
    IF Len(authors) = 0 THEN Unknown
    ELSE IF Len(authors) = 1 THEN authors[1]
    ELSE IF Len(authors) < 3
        THEN JoinStr(<<",", " ">>, SubSeq(authors, 1, Len(authors) - 1))
                \o <<" ", "&", " ">> \o authors[Len(authors)]
    ELSE authors[1] \o EtAl

format_authors(authors) ==
    IF Len(authors) = 0 THEN Unknown
    ELSE IF Len(authors) = 1 THEN authors[1]
    ELSE IF Len(authors) <= 3
        THEN JoinStr(<<",", " ">>, SubSeq(authors, 1, Len(authors) - 1))
                \o <<" ", "&", " ">> \o authors[Len(authors)]
    ELSE authors[1] \o EtAl

\* the character class of escape_regexp
InvalidCharacters == {"/", ":", "*", "?", "\"", "<", ">", "|"}

replace_invalid_characters(path) ==
    [i \in 1..Len(path) |-> IF path[i] \in InvalidCharacters THEN "_" ELSE path[i]]

Digit(n) == CASE n = 0 -> "0" [] n = 1 -> "1" [] n = 2 -> "2" [] n = 3 -> "3"
              [] n = 4 -> "4" [] n = 5 -> "5" [] n = 6 -> "6" [] n = 7 -> "7"
              [] n = 8 -> "8" [] n = 9 -> "9"

\* str(n) of a non-negative int
RECURSIVE IntStr(_)
IntStr(n) == IF n < 10 THEN S1(Digit(n)) ELSE IntStr(n \div 10) \o S1(Digit(n % 10))

\* PercentTemplate.substitute: a template is a sequence of characters and of the
\* placeholders %authors, %year, %title; %% stands for a literal percent sign
substitute(template, mapping) ==
    Concat([i \in 1..Len(template) |->
        IF template[i] \in DOMAIN mapping THEN mapping[template[i]]
        ELSE IF template[i] = "%%" THEN S1("%")
        ELSE S1(template[i])])

_get_document_path(info, document) ==
    LET authors_last_names == format_authors(document.authors)
    IN  substitute(info.pattern,
            [authors |-> replace_invalid_characters(authors_last_names),
             year |-> IntStr(document.year),
             title |-> replace_invalid_characters(document.title)])

DefaultPattern == <<"authors", "/", "year", " ", "-", " ", "title">>

----------------------------------------------------------------------------
(* BackupInfo.py *)

\* BackupInfo.__init__
NewBackupInfo(pattern) ==
    [pattern |-> pattern, last_backup_time |-> -1, documents |-> <<>>]

contains_documents(info, dir) ==
    \E d \in Range(info.documents) : is_relative_to(Parts(d), dir)

used_by_other_document(info, id, path) ==
    /\ path \in Inverse(info.documents)
    /\ InverseKey(info.documents, path) # id

\* what BackupInfoEncoder writes for a BackupInfo
BackupInfoJson(info) ==
    [t |-> "backup", pattern |-> info.pattern,
     last_backup_time |-> info.last_backup_time, documents |-> info.documents]

\* BackupInfo.save
SaveBackupInfo(fsys, info) == write(fsys, <<InfoJson>>, BackupInfoJson(info))

\* BackupInfo.load raises on a file that is not a Backup State
BackupInfoLoads(fsys) ==
    /\ is_file(fsys, <<InfoJson>>)
    /\ fsys[<<InfoJson>>].data.t = "backup"
    /\ fsys[<<InfoJson>>].data.last_backup_time >= 0

\* a faulty test, which takes a Backup State file that does not parse for none
BackupInfoExistsAndParses(fsys) == exists(fsys, <<InfoJson>>) /\ BackupInfoLoads(fsys)

\* backup_info_path.exists()
BackupInfoExists(fsys) == exists(fsys, <<InfoJson>>)

\* a faulty BackupInfo.load, which does not take the pattern of the file
LoadBackupInfoDefaultPattern(fsys) ==
    LET data == fsys[<<InfoJson>>].data
    IN  [pattern |-> <<"authors", "/", "year", " ", "-", " ", "title">>,
         last_backup_time |-> data.last_backup_time, documents |-> data.documents]

LoadBackupInfo(fsys) ==
    LET data == fsys[<<InfoJson>>].data
    IN  [pattern |-> data.pattern, last_backup_time |-> data.last_backup_time,
         documents |-> data.documents]

----------------------------------------------------------------------------
(* DocumentInfo.py *)

used_by_other_file(files, id, filename) ==
    /\ filename \in Inverse(files)
    /\ InverseKey(files, filename) # id

\* what DocumentEncoder writes for a document
DocumentJson(id, document) ==
    [id |-> id, authors |-> document.authors, title |-> document.title,
     year |-> document.year, type |-> document.type,
     last_modified |-> document.last_modified]

\* what DocumentEncoder writes for a DocumentInfo
DocumentInfoJson(id, document, files) ==
    [t |-> "doc", document |-> DocumentJson(id, document), files |-> files]

\* DocumentInfo.load_files raises unless the file parses and holds 'files'
LoadFilesRaises(fsys, p) == ~(is_file(fsys, p) /\ fsys[p].data.t = "doc")
load_files(fsys, p) == fsys[p].data.files

----------------------------------------------------------------------------
(* BackupWorker: downloads and per-document file handling *)

\* the directory execute() was given as backup_location
BackupLocation == << <<"b", "a", "c", "k", "u", "p">> >>

Event(e, id, file) == [e |-> e, doc |-> id, file |-> file]

\* calculate_checksum
calculate_checksum(fsys, p) ==
    IF fsys[p].data.t = "bytes" THEN fsys[p].data.hash ELSE <<"?">>

\* a faulty _file_needs_update, which asks for every file again
FileAlwaysNeedsUpdate(fsys, file, p) == TRUE

_file_needs_update(fsys, file, p) == file.filehash # calculate_checksum(fsys, p)

\* The outcomes of one download: "ok", "early" (requests.get raises before the
\* local file is opened) and "late" (the transfer breaks after it was opened).
Outcomes == {"ok", "early", "late"}

\* open(p, 'wb') succeeds when the parent directory exists
CanOpen(fsys, p) == is_dir(fsys, Parent(p)) /\ ~is_dir(fsys, p)

\* _download_file: raises when the handler's file_path.unlink() finds no file
DownloadRaises(fsys, p, outcome) ==
    \/ outcome = "early" /\ ~exists(fsys, p)
    \/ outcome # "early" /\ ~CanOpen(fsys, p)

\* what a transfer that breaks leaves in the opened file
Partial == [t |-> "partial"]

\* a faulty _download_file, which writes the bytes of another file
DownloadOtherBytes(fsys, file, p, outcome) ==
    IF outcome = "ok" /\ CanOpen(fsys, p) THEN write(fsys, p, Bytes(<<"?">>))
    ELSE unlink(fsys, p)

_download_file(fsys, file, p, outcome) ==
    IF outcome = "ok" /\ CanOpen(fsys, p) THEN write(fsys, p, Bytes(file.filehash))
    ELSE IF outcome = "late" /\ CanOpen(fsys, p) THEN unlink(write(fsys, p, Partial), p)
    ELSE unlink(fsys, p)

\* _download_file and what the run notes of it
Download(s, id, file, p, outcome) ==
    IF DownloadRaises(s.fs, p, outcome)
    THEN [s EXCEPT !.raised = TRUE,
                   !.ev = @ \cup {Event("download_" \o outcome, id, file.id),
                                  Event("unlink_raised", id, file.id)}]
    ELSE [s EXCEPT !.fs = _download_file(s.fs, file, p, outcome),
                   !.ev = @ \cup {Event("download_" \o outcome, id, file.id)}]

\* document_info.files[file.id] = file.file_name
Record(s, file) ==
    IF s.raised THEN s
    ELSE IF BidictRaises(s.files, file.id, file.file_name)
    THEN [s EXCEPT !.raised = TRUE]
    ELSE [s EXCEPT !.files = Put(@, file.id, file.file_name)]

\* lines 101-102: after the rename
UpdateRenamed(s, id, file, p, outcome) ==
    IF ~s.raised /\ _file_needs_update(s.fs, file, p)
    THEN Download(s, id, file, p, outcome) ELSE s

Missing(s, id, file) == [s EXCEPT !.ev = @ \cup {Event("file_missing", id, file.id)}]

\* lines 94-117, for a file to be stored at p
StoreFile(s, id, dir, file, p, outcome) ==
    IF file.id \in DOMAIN s.files
    THEN IF file.file_name # s.files[file.id]
         THEN IF exists(s.fs, joinpath(dir, s.files[file.id]))
              THEN IF ~is_dir(s.fs, Parent(p))
                   THEN [s EXCEPT !.raised = TRUE]
                   ELSE UpdateRenamed(
                            Record([s EXCEPT !.fs =
                                        rename(@, joinpath(dir, s.files[file.id]), p)],
                                   file),
                            id, file, p, outcome)
              ELSE Download(Missing(s, id, file), id, file, p, outcome)
         ELSE IF exists(s.fs, p)
              THEN IF _file_needs_update(s.fs, file, p)
                   THEN Download(s, id, file, p, outcome) ELSE s
              ELSE Download(Missing(s, id, file), id, file, p, outcome)
    ELSE Record(Download(s, id, file, p, outcome), file)

\* One pass of the loop over document.files.iter() (lines 83-117).  st is the
\* state of _handle_document: fs, files (document_info.files),
\* temp (temporary_stored_files, in insertion order), raised, ev.
HandleFile(st, id, dir, file, outcome) ==
    IF is_relative_to(BackupLocation \o joinpath(dir, file.file_name), <<DotTemp>>)
    THEN [st EXCEPT !.ev = @ \cup {Event("file_ignored", id, file.id)}]
    ELSE IF used_by_other_file(st.files, file.id, file.file_name)
    THEN StoreFile([st EXCEPT !.temp = Append(@, <<file.id, file.file_name>>)],
                   id, dir, file, dir \o <<DotTemp, file.id>>, outcome)
    ELSE StoreFile(st, id, dir, file, joinpath(dir, file.file_name), outcome)

RECURSIVE HandleFiles(_, _, _, _, _, _)
HandleFiles(st, id, dir, files, outcomes, i) ==
    IF i > Len(files) \/ st.raised THEN st
    ELSE HandleFiles(HandleFile(st, id, dir, files[i], outcomes[i]),
                     id, dir, files, outcomes, i + 1)

\* line 119
RemovedFileIds(files, file_ids_remote) == DOMAIN files \ file_ids_remote

\* The loop over removed_file_ids (lines 119-127); its order does not matter
\* because the popped names are distinct.
RemoveFiles(st, id, dir, file_ids_remote) ==
    IF st.raised THEN st
    ELSE [st EXCEPT
            !.files = [f \in DOMAIN st.files \cap file_ids_remote |-> st.files[f]],
            !.fs = [q \in DOMAIN st.fs \
                        {joinpath(dir, st.files[f]) :
                            f \in RemovedFileIds(st.files, file_ids_remote)} |-> st.fs[q]],
            !.ev = @ \cup {Event("file_removed", id, f) :
                            f \in RemovedFileIds(st.files, file_ids_remote)}
                     \cup {Event("removed_file_missing", id, f) :
                            f \in {g \in RemovedFileIds(st.files, file_ids_remote) :
                                    ~exists(st.fs, joinpath(dir, st.files[g]))}}]

\* The loop over temporary_stored_files (lines 129-138).  file is the loop
\* variable left by the loop over the remote files; os.rename is given the
\* path '.temp/<file id>' relative to the working directory of the process,
\* where nothing was stored, and raises.
RECURSIVE ResolveFiles(_, _, _)
ResolveFiles(st, files, i) ==
    IF i > Len(st.temp) \/ st.raised THEN st
    ELSE IF /\ used_by_other_file(st.files, files[Len(files)].id, st.temp[i][2])
            /\ st.temp[i][1] \in DOMAIN st.files
    THEN ResolveFiles([st EXCEPT !.files = Drop(@, st.temp[i][1])], files, i + 1)
    ELSE [st EXCEPT !.raised = TRUE]

\* lines 140-142
RemoveTempDir(st, temp_dir) ==
    IF st.raised \/ ~exists(st.fs, temp_dir) THEN st
    ELSE IF is_dir(st.fs, temp_dir) THEN [st EXCEPT !.fs = rmtree(@, temp_dir)]
    ELSE [st EXCEPT !.raised = TRUE]

\* line 145
SaveDocumentInfo(st, id, document, info) ==
    IF st.raised THEN st
    ELSE [st EXCEPT !.fs = write(@, info, DocumentInfoJson(id, document, st.files)),
                    !.ev = @ \cup {Event("record_saved", id, <<>>)}]

\* lines 67-79: the directory is made and the record read
LoadDocumentInfo(fsys, id, info) ==
    IF ~exists(fsys, info)
    THEN [fs |-> fsys, files |-> <<>>, temp |-> <<>>, raised |-> FALSE, ev |-> {}]
    ELSE IF LoadFilesRaises(fsys, info)
    THEN [fs |-> fsys, files |-> <<>>, temp |-> <<>>, raised |-> FALSE,
          ev |-> {Event("record_unparseable", id, <<>>)}]
    ELSE [fs |-> fsys, files |-> load_files(fsys, info), temp |-> <<>>,
          raised |-> FALSE, ev |-> {}]

FileIds(document) == {document.files[i].id : i \in 1..Len(document.files)}

\* _handle_document(document, document_path) with the given download outcomes
HandleIn(fsys, id, document, dir, outcomes) ==
    SaveDocumentInfo(
        RemoveTempDir(
            ResolveFiles(
                RemoveFiles(
                    HandleFiles(LoadDocumentInfo(mkdir(fsys, dir), id, dir \o <<InfoJson>>),
                                id, dir, document.files, outcomes, 1),
                    id, dir, FileIds(document)),
                document.files, 1),
            dir \o <<DotTemp>>),
        id, document, dir \o <<InfoJson>>)

_handle_document(fsys, id, document, document_path, outcomes) ==
    HandleIn(fsys, id, document, Parts(document_path), outcomes)

----------------------------------------------------------------------------
(* BackupWorker: directories of documents *)

\* _remove_recursive_if_empty
RECURSIVE _remove_recursive_if_empty(_, _)
_remove_recursive_if_empty(fsys, dir) ==
    IF dir # <<>> /\ iterdir(fsys, dir) = {}
    THEN _remove_recursive_if_empty(unlink(fsys, dir), Parent(dir))
    ELSE fsys

\* os.rename(previous, new) of directories raises when new is a directory
\* that is not empty, or a file
MoveRaises(fsys, previous_dir, new_dir) ==
    LET previous == Parts(previous_dir)
        new == Parts(new_dir)
    IN  /\ exists(fsys, previous)
        /\ exists(fsys, new)
        /\ (is_file(fsys, new) \/ iterdir(fsys, new) # {})

_move_document_dir(fsys, previous_dir, new_dir, remove_previous_dir_parent_if_empty) ==
    LET previous == Parts(previous_dir)
        new == Parts(new_dir)
    IN  IF ~exists(fsys, previous) THEN mkdir(fsys, new)
        ELSE LET moved == rename(mkdir(fsys, Parent(new)), previous, new)
             IN  IF remove_previous_dir_parent_if_empty
                 THEN _remove_recursive_if_empty(moved, Parent(previous))
                 ELSE moved

\* a faulty _remove_document_dir, which removes the parent of the directory
\* with everything in it
RemoveDocumentDirAndParent(fsys, dir) ==
    IF ~exists(fsys, Parts(dir)) THEN fsys
    ELSE IF Parent(Parts(dir)) = <<>> THEN rmtree(fsys, Parts(dir))
    ELSE rmtree(fsys, Parent(Parts(dir)))

\* a faulty _remove_document_dir, which leaves the emptied ancestors behind
RemoveDocumentDirUnpruned(fsys, dir) ==
    IF ~exists(fsys, Parts(dir)) THEN fsys ELSE rmtree(fsys, Parts(dir))

_remove_document_dir(fsys, dir) ==
    LET full_dir == Parts(dir)
    IN  IF ~exists(fsys, full_dir) THEN fsys
        ELSE _remove_recursive_if_empty(rmtree(fsys, full_dir), Parent(full_dir))

----------------------------------------------------------------------------
(* BackupWorker: the orphan sweep.  A sweep yields the set of locations it  *)
(* deletes (each with all below it) and whether it raised.  Path.iterdir    *)
(* lists a directory in no particular order, so a sweep that raises may     *)
(* have visited any of the entries that do not raise before it did.         *)

Name(p) == p[Len(p)]

_remove_unaccounted_files_in_document_dir(fsys, dir) ==
    LET document_info_path == dir \o <<InfoJson>>
    IN  IF ~exists(fsys, document_info_path)
        THEN [del |-> {dir}, raised |-> FALSE]
        ELSE IF LoadFilesRaises(fsys, document_info_path)
        THEN [del |-> {}, raised |-> TRUE]
        ELSE LET document_files == load_files(fsys, document_info_path)
             IN  [del |-> {file \in iterdir(fsys, dir) :
                            /\ Name(file) # InfoJson
                            /\ Name(file) \notin Inverse(document_files)},
                  raised |-> FALSE]

\* all the ways a loop over the entries can end, from what each entry can do
LoopOutcomes(entries, outcome) ==
    LET clean == {e \in entries : \A o \in outcome[e] : ~o.raised}
        Dels(T) == UNION {o.del : o \in UNION {outcome[e] : e \in T}}
    IN  IF clean = entries
        THEN {[del |-> Dels(entries), raised |-> FALSE]}
        ELSE {[del |-> o.del \cup Dels(T), raised |-> TRUE] :
                <<o, T>> \in UNION {outcome[e] \X SUBSET clean : e \in entries \ clean}}

RECURSIVE _remove_unaccounted_files_in_non_document_dir(_, _, _, _)
_remove_unaccounted_files_in_non_document_dir(fsys, info, dir, ignore_info_file) ==
    LET Visit == [file \in iterdir(fsys, dir) |->
            IF ignore_info_file /\ Name(file) = InfoJson
            THEN {[del |-> {}, raised |-> FALSE]}
            ELSE IF ~is_dir(fsys, file)
            THEN {[del |-> {file}, raised |-> FALSE]}
            ELSE IF PathStr(file) \in Inverse(info.documents)
            THEN {_remove_unaccounted_files_in_document_dir(fsys, file)}
            ELSE IF contains_documents(info, file)
            THEN _remove_unaccounted_files_in_non_document_dir(fsys, info, file, FALSE)
            ELSE {[del |-> {file}, raised |-> FALSE]}]
    IN  LoopOutcomes(iterdir(fsys, dir), Visit)

_remove_unaccounted_files(fsys, info) ==
    _remove_unaccounted_files_in_non_document_dir(fsys, info, <<>>, TRUE)

\* the tree once the locations of del are deleted
Deleted(fsys, del) ==
    [q \in {x \in DOMAIN fsys : \A d \in del : ~IsPrefix(d, x)} |-> fsys[q]]

----------------------------------------------------------------------------
(* ActionHistory.py.  An action is a record of its class and attributes;   *)
(* an attribute a class does not have is the empty string.                 *)

NoneAction(id) == [kind |-> "None", old_path |-> <<>>, path |-> <<>>]
AddAction(id, path) == [kind |-> "Add", old_path |-> <<>>, path |-> path]
RemoveAction(id, old_path) == [kind |-> "Remove", old_path |-> old_path, path |-> <<>>]
UpdateAction(id, path) == [kind |-> "Update", old_path |-> <<>>, path |-> path]
\* MoveAndUpdateAction.__init__ assigns path to self.old_path
MoveAndUpdateAction(id, old_path, path) ==
    [kind |-> "MoveAndUpdate", old_path |-> path, path |-> path]

add_action(actions, id, action) == Put(actions, id, action)

\* a faulty remove_action, which keeps the action
KeepAction(actions, id) == actions

remove_action(actions, id) == Drop(actions, id)

\* the four counts of ActionHistory.format_summary
Count(actions, kind) == Cardinality({id \in DOMAIN actions : actions[id].kind = kind})
format_summary(actions) ==
    [additions |-> Count(actions, "Add"), removals |-> Count(actions, "Remove"),
     updates |-> Count(actions, "Update"),
     move_and_updates |-> Count(actions, "MoveAndUpdate")]

----------------------------------------------------------------------------
(* BackupWorker.execute, one action per step *)

NoDoc == <<>>
\* the downloads a run has seen fail: the pairs of document id and file id
FailedDownloads(ev) ==
    {<<e.doc, e.file>> : e \in {x \in ev : x.e \in {"download_early", "download_late"}}}
Idle == pc \in {"idle", "done", "aborted"}

\* a faulty abort, which saves the Backup State as it is in memory
AbortAndSave(fsys, ev) ==
    /\ pc' = "aborted"
    /\ fs' = SaveBackupInfo(fsys, backup_info)
    /\ events' = events \cup ev

Abort(fsys, ev) ==
    /\ pc' = "aborted"
    /\ fs' = fsys
    /\ events' = events \cup ev

\* lines 219-232: load or create the BackupInfo, then sweep
Begin(pattern) ==
    /\ Idle
    /\ runs < MaxRuns
    /\ runs' = runs + 1
    /\ clock' = clock + 1
    /\ history' = <<>>
    /\ removed_document_ids' = {}
    /\ modified_document_ids' = {}
    /\ new_document_ids' = {}
    /\ temporary_stored_documents' = <<>>
    /\ doc' = NoDoc
    /\ new_backup_time' = clock + 1
    /\ UNCHANGED <<remote, ops>>
    /\ LET loaded == BackupInfoExists(fs)
           info == IF loaded /\ BackupInfoLoads(fs) THEN LoadBackupInfo(fs)
                   ELSE NewBackupInfo(pattern)
           start == [fs |-> fs, remote |-> remote, info |-> info, swept |-> fs,
                     after_done |-> pc = "done",
                     failed |-> IF pc = "done" THEN FailedDownloads(events) ELSE {},
                     time |-> clock + 1, pattern |-> pattern,
                     first |-> IF runs = 0 THEN pattern ELSE run0.first]
       IN  IF loaded /\ ~BackupInfoLoads(fs)
           THEN /\ pc' = "aborted"
                /\ events' = {Event("backup_info_unparseable", <<>>, <<>>)}
                /\ UNCHANGED fs
                /\ backup_info' = info
                /\ run0' = start
           ELSE \E o \in _remove_unaccounted_files(fs, info) :
                /\ fs' = Deleted(fs, o.del)
                /\ pc' = IF o.raised THEN "aborted" ELSE "classify"
                /\ events' = IF o.raised THEN {Event("sweep_raised", <<>>, <<>>)} ELSE {}
                /\ backup_info' = info
                /\ run0' = [start EXCEPT !.swept = Deleted(fs, o.del)]

\* a faulty classification, which takes a tracked document for modified only
\* when its timestamp is strictly greater than last_backup_time
ClassifyStrictlyLater ==
    /\ pc = "classify"
    /\ LET tracked == DOMAIN backup_info.documents
           modified == {id \in DOMAIN remote \cap tracked :
                           remote[id].last_modified > backup_info.last_backup_time}
           unmodified == (DOMAIN remote \cap tracked) \ modified
       IN  /\ modified_document_ids' = modified
           /\ new_document_ids' = DOMAIN remote \ tracked
           /\ removed_document_ids' = tracked \ (modified \cup unmodified)
           /\ history' = [id \in unmodified |-> NoneAction(id)]
    /\ pc' = "loop"
    /\ UNCHANGED <<fs, remote, clock, backup_info, new_backup_time,
                   temporary_stored_documents, doc, run0, events, runs, ops>>

\* lines 234-248: classification of the remote documents
Classify ==
    /\ pc = "classify"
    /\ LET tracked == DOMAIN backup_info.documents
           modified == {id \in DOMAIN remote \cap tracked :
                           remote[id].last_modified >= backup_info.last_backup_time}
           unmodified == (DOMAIN remote \cap tracked) \ modified
       IN  /\ modified_document_ids' = modified
           /\ new_document_ids' = DOMAIN remote \ tracked
           /\ removed_document_ids' = tracked \ (modified \cup unmodified)
           /\ history' = [id \in unmodified |-> NoneAction(id)]
    /\ pc' = "loop"
    /\ UNCHANGED <<fs, remote, clock, backup_info, new_backup_time,
                   temporary_stored_documents, doc, run0, events, runs, ops>>

\* lines 250-253: one pass of the loop over removed_document_ids
RemoveDocument(doc_id) ==
    /\ pc = "loop"
    /\ doc_id \in removed_document_ids
    /\ LET old_document_path == backup_info.documents[doc_id]
       IN  /\ backup_info' = [backup_info EXCEPT !.documents = Drop(@, doc_id)]
           /\ fs' = _remove_document_dir(fs, old_document_path)
           /\ history' = add_action(history, doc_id, RemoveAction(doc_id, old_document_path))
    /\ removed_document_ids' = removed_document_ids \ {doc_id}
    /\ UNCHANGED <<remote, clock, pc, new_backup_time, modified_document_ids,
                   new_document_ids, temporary_stored_documents, doc, run0, events,
                   runs, ops>>

\* lines 279-280 and 294-295: _handle_document, then backup_info.documents[doc.id] = path
RecordHandled(st, hist, doc_id, document_path, temp) ==
    /\ doc' = doc_id
    /\ history' = hist
    /\ temporary_stored_documents' = temp
    /\ IF st.raised \/ BidictRaises(backup_info.documents, doc_id, document_path)
       THEN /\ Abort(st.fs, st.ev)
            /\ UNCHANGED backup_info
       ELSE /\ fs' = st.fs
            /\ events' = events \cup st.ev
            /\ pc' = pc
            /\ backup_info' = [backup_info EXCEPT
                                  !.documents = Put(@, doc_id, document_path)]

HandleAndRecord(fsys, hist, doc_id, document_path, temp, outcomes) ==
    RecordHandled(_handle_document(fsys, doc_id, remote[doc_id], document_path, outcomes),
                  hist, doc_id, document_path, temp)

TempPath(doc_id) == DotTemp \o S1("/") \o doc_id

\* lines 256-280: one pass of the loop over modified_document_ids
ModifiedDocument(doc_id, outcomes) ==
    /\ pc = "loop"
    /\ removed_document_ids = {}
    /\ doc_id \in modified_document_ids
    /\ outcomes \in [1..Len(remote[doc_id].files) -> Outcomes]
    /\ modified_document_ids' = modified_document_ids \ {doc_id}
    /\ UNCHANGED <<remote, clock, new_backup_time, removed_document_ids,
                   new_document_ids, run0, runs, ops>>
    /\ LET old_document_path == backup_info.documents[doc_id]
           rendered == _get_document_path(backup_info, remote[doc_id])
           staged == used_by_other_document(backup_info, doc_id, rendered)
           document_path == IF staged THEN TempPath(doc_id) ELSE rendered
           temp == IF staged
                   THEN Append(temporary_stored_documents, <<doc_id, rendered>>)
                   ELSE temporary_stored_documents
       IN  IF old_document_path # rendered
           THEN IF is_relative_to(Parts(rendered), <<DotTemp>>)
                THEN /\ fs' = _remove_document_dir(fs, old_document_path)
                     /\ history' = add_action(history, doc_id,
                                        RemoveAction(doc_id, old_document_path))
                     /\ backup_info' = [backup_info EXCEPT !.documents = Drop(@, doc_id)]
                     /\ events' = events \cup {Event("document_reserved", doc_id, <<>>)}
                     /\ doc' = doc_id
                     /\ UNCHANGED <<pc, temporary_stored_documents>>
                ELSE IF MoveRaises(fs, old_document_path, document_path)
                THEN /\ Abort(fs, {Event("move_raised", doc_id, <<>>)})
                     /\ doc' = doc_id
                     /\ temporary_stored_documents' = temp
                     /\ UNCHANGED <<history, backup_info>>
                ELSE HandleAndRecord(
                        _move_document_dir(fs, old_document_path, document_path, TRUE),
                        add_action(history, doc_id,
                            MoveAndUpdateAction(doc_id, old_document_path, document_path)),
                        doc_id, document_path, temp, outcomes)
           ELSE HandleAndRecord(fs,
                    add_action(history, doc_id, UpdateAction(doc_id, rendered)),
                    doc_id, rendered, temporary_stored_documents, outcomes)

\* lines 282-295: one pass of the loop over new_document_ids
NewDocument(doc_id, outcomes) ==
    /\ pc = "loop"
    /\ removed_document_ids = {}
    /\ modified_document_ids = {}
    /\ doc_id \in new_document_ids
    /\ outcomes \in [1..Len(remote[doc_id].files) -> Outcomes]
    /\ new_document_ids' = new_document_ids \ {doc_id}
    /\ UNCHANGED <<remote, clock, new_backup_time, removed_document_ids,
                   modified_document_ids, run0, runs, ops>>
    /\ LET rendered == _get_document_path(backup_info, remote[doc_id])
           staged == used_by_other_document(backup_info, doc_id, rendered)
           document_path == IF staged THEN TempPath(doc_id) ELSE rendered
           temp == IF staged
                   THEN Append(temporary_stored_documents, <<doc_id, rendered>>)
                   ELSE temporary_stored_documents
       IN  IF is_relative_to(Parts(rendered), <<DotTemp>>)
           THEN /\ doc' = doc_id
                /\ events' = events \cup {Event("document_reserved", doc_id, <<>>)}
                /\ UNCHANGED <<fs, pc, backup_info, history, temporary_stored_documents>>
           ELSE HandleAndRecord(fs,
                    add_action(history, doc_id, AddAction(doc_id, document_path)),
                    doc_id, document_path, temp, outcomes)

LoopsDone ==
    /\ pc = "loop"
    /\ removed_document_ids = {}
    /\ modified_document_ids = {}
    /\ new_document_ids = {}

\* a faulty step 5, which records a staged document at a path that is still
\* claimed instead of dropping it
ResolveDocumentKeepingDuplicate ==
    /\ LoopsDone
    /\ temporary_stored_documents # <<>>
    /\ temporary_stored_documents' = Tail(temporary_stored_documents)
    /\ UNCHANGED <<remote, clock, new_backup_time, removed_document_ids,
                   modified_document_ids, new_document_ids, doc, run0, runs, ops>>
    /\ LET doc_id == Head(temporary_stored_documents)[1]
           document_path == Head(temporary_stored_documents)[2]
       IN  IF used_by_other_document(backup_info, doc, document_path)
           THEN /\ history' = [history EXCEPT ![doc_id].path = document_path]
                /\ backup_info' = [backup_info EXCEPT
                                      !.documents = Put(@, doc_id, document_path)]
                /\ events' = events \cup {Event("document_duplicate", doc_id, <<>>)}
                /\ UNCHANGED <<fs, pc>>
           ELSE IF MoveRaises(fs, TempPath(doc_id), document_path)
           THEN /\ Abort(fs, {Event("move_raised", doc_id, <<>>)})
                /\ UNCHANGED <<history, backup_info>>
           ELSE /\ fs' = _move_document_dir(fs, TempPath(doc_id), document_path, FALSE)
                /\ history' = [history EXCEPT ![doc_id].path = document_path]
                /\ backup_info' = [backup_info EXCEPT
                                      !.documents = Put(@, doc, document_path)]
                /\ events' = events \cup {Event("document_resolved", doc_id, <<>>)}
                /\ UNCHANGED pc

\* lines 297-307: one pass of the loop over temporary_stored_documents; the
\* test and the final assignment use doc.id, the document fetched last
ResolveDocument ==
    /\ LoopsDone
    /\ temporary_stored_documents # <<>>
    /\ temporary_stored_documents' = Tail(temporary_stored_documents)
    /\ UNCHANGED <<remote, clock, new_backup_time, removed_document_ids,
                   modified_document_ids, new_document_ids, doc, run0, runs, ops>>
    /\ LET doc_id == Head(temporary_stored_documents)[1]
           document_path == Head(temporary_stored_documents)[2]
       IN  IF used_by_other_document(backup_info, doc, document_path)
           THEN /\ history' = remove_action(history, doc_id)
                /\ backup_info' = [backup_info EXCEPT !.documents = Drop(@, doc_id)]
                /\ events' = events \cup {Event("document_duplicate", doc_id, <<>>)}
                /\ UNCHANGED <<fs, pc>>
           ELSE IF MoveRaises(fs, TempPath(doc_id), document_path)
           THEN /\ Abort(fs, {Event("move_raised", doc_id, <<>>)})
                /\ UNCHANGED <<history, backup_info>>
           ELSE /\ fs' = _move_document_dir(fs, TempPath(doc_id), document_path, FALSE)
                /\ history' = [history EXCEPT ![doc_id].path = document_path]
                /\ backup_info' = [backup_info EXCEPT
                                      !.documents = Put(@, doc, document_path)]
                /\ events' = events \cup {Event("document_resolved", doc_id, <<>>)}
                /\ UNCHANGED pc

\* a faulty stamp: the time at which the Backup State is saved
TimeOfSaving == clock

\* line 317: the time the run persists as last_backup_time
LastBackupTime == new_backup_time

\* a faulty step 6, which leaves the staging directory in place
FinishWithoutCleanup ==
    /\ LoopsDone
    /\ temporary_stored_documents = <<>>
    /\ LET cleaned == fs
           info == [backup_info EXCEPT !.last_backup_time = LastBackupTime]
       IN  /\ backup_info' = info
           /\ fs' = SaveBackupInfo(cleaned, info)
    /\ pc' = "done"
    /\ UNCHANGED <<remote, clock, new_backup_time, history, removed_document_ids,
                   modified_document_ids, new_document_ids,
                   temporary_stored_documents, doc, run0, events, runs, ops>>

\* lines 309-322: remove .temp, set last_backup_time, save, return history
Finish ==
    /\ LoopsDone
    /\ temporary_stored_documents = <<>>
    /\ LET cleaned == IF exists(fs, <<DotTemp>>) THEN rmtree(fs, <<DotTemp>>) ELSE fs
           info == [backup_info EXCEPT !.last_backup_time = LastBackupTime]
       IN  /\ backup_info' = info
           /\ fs' = SaveBackupInfo(cleaned, info)
    /\ pc' = "done"
    /\ UNCHANGED <<remote, clock, new_backup_time, history, removed_document_ids,
                   modified_document_ids, new_document_ids,
                   temporary_stored_documents, doc, run0, events, runs, ops>>

----------------------------------------------------------------------------
(* The remote library and its changes between two runs *)

DocIds == {S1("1"), S1("2")}
AuthorLists == {<<S1("A")>>, <<S1("B")>>, <<DotTemp>>}
Titles == {S1("t"), S1("u")}
Year == 7

Document(authors, title, type, files) ==
    [authors |-> authors, title |-> title, year |-> Year, type |-> type,
     last_modified |-> clock, files |-> files]

Changed ==
    /\ Idle
    /\ ops < MaxOps
    /\ ops' = ops + 1
    /\ pc' = "idle"
    /\ UNCHANGED <<fs, clock, backup_info, new_backup_time, history,
                   removed_document_ids, modified_document_ids, new_document_ids,
                   temporary_stored_documents, doc, run0, events, runs>>

RemoteCreate(id, authors, title) ==
    /\ id \notin DOMAIN remote
    /\ remote' = Put(remote, id, Document(authors, title, "working_paper", <<>>))
    /\ Changed

RemoteDelete(id) ==
    /\ id \in DOMAIN remote
    /\ remote' = Drop(remote, id)
    /\ Changed

RemoteUpdate(id, authors, title) ==
    /\ id \in DOMAIN remote
    /\ <<authors, title>> # <<remote[id].authors, remote[id].title>>
    /\ remote' = [remote EXCEPT ![id] = Document(authors, title, @.type, @.files)]
    /\ Changed

RemoteUpdateType(id) ==
    /\ id \in DOMAIN remote
    /\ remote' = [remote EXCEPT ![id] =
            Document(@.authors, @.title,
                     IF @.type = "generic" THEN "working_paper" ELSE "generic", @.files)]
    /\ Changed

\* A document is changed remotely while a run is past the capture of
\* new_backup_time, at that very instant (tick 0) or later (tick 1).
RemoteUpdateDuringRun(id, tick) ==
    /\ pc \in {"classify", "loop"}
    /\ id \in DOMAIN remote
    /\ ops < MaxOps
    /\ ops' = ops + 1
    /\ clock' = clock + tick
    /\ remote' = [remote EXCEPT ![id] =
            [@ EXCEPT !.type = IF @ = "generic" THEN "working_paper" ELSE "generic",
                      !.last_modified = clock + tick]]
    /\ UNCHANGED <<fs, pc, backup_info, new_backup_time, history,
                   removed_document_ids, modified_document_ids, new_document_ids,
                   temporary_stored_documents, doc, run0, events, runs>>

----------------------------------------------------------------------------
(* The specification of the document-level engine: an empty backup location *)
(* and any library of documents without files.                             *)

NoRun == [fs |-> <<>>, remote |-> <<>>, info |-> NewBackupInfo(DefaultPattern),
          swept |-> <<>>, after_done |-> FALSE, failed |-> {}, time |-> 0,
          pattern |-> DefaultPattern, first |-> DefaultPattern]

InitLocals ==
    /\ clock = 0
    /\ pc = "idle"
    /\ backup_info = NewBackupInfo(DefaultPattern)
    /\ new_backup_time = 0
    /\ history = <<>>
    /\ removed_document_ids = {}
    /\ modified_document_ids = {}
    /\ new_document_ids = {}
    /\ temporary_stored_documents = <<>>
    /\ doc = NoDoc
    /\ run0 = NoRun
    /\ events = {}
    /\ runs = 0
    /\ ops = 0

Libraries(Docs) ==
    UNION {[ids -> Docs] : ids \in SUBSET DocIds}

Init ==
    /\ fs = <<>>
    /\ remote \in Libraries({[authors |-> a, title |-> t, year |-> Year,
                              type |-> "working_paper", last_modified |-> 0,
                              files |-> <<>>] : a \in AuthorLists, t \in Titles})
    /\ InitLocals

Steps ==
    \/ Classify
    \/ \E id \in removed_document_ids : RemoveDocument(id)
    \/ \E id \in modified_document_ids :
            \E o \in [1..Len(remote[id].files) -> Outcomes] : ModifiedDocument(id, o)
    \/ \E id \in new_document_ids :
            \E o \in [1..Len(remote[id].files) -> Outcomes] : NewDocument(id, o)
    \/ ResolveDocument
    \/ Finish

Next ==
    \/ Begin(DefaultPattern)
    \/ Steps
    \/ \E id \in DocIds, a \in AuthorLists, t \in Titles : RemoteCreate(id, a, t)
    \/ \E id \in DocIds : RemoteDelete(id)
    \/ \E id \in DocIds, a \in AuthorLists, t \in Titles : RemoteUpdate(id, a, t)
    \/ \E id \in DocIds : RemoteUpdateType(id)

Spec == Init /\ [][Next]_vars

----------------------------------------------------------------------------
(* The specification of file handling: an empty backup location, documents *)
(* with attached files, downloads that succeed or fail, and a user who     *)
(* deletes downloaded files between two runs.  No document is deleted      *)
(* remotely, so the loop over removed_document_ids has nothing to do.  The *)
(* sweep specification below has a user who changes the tree in any way.   *)

MaxFileRuns == 2

FileIdsRemote == {S1("f"), S1("g")}
FileNames == {S1("x"), S1("y")}

\* a remote file; the content hash is that of the file id's content
File(id, name) == [id |-> id, file_name |-> name, filehash |-> id]

FileLists ==
    {<<>>} \cup {<<File(i, n)>> : i \in FileIdsRemote, n \in FileNames}
           \cup {<<File(S1("f"), n), File(S1("g"), m)>> : n, m \in FileNames}

Without(files, i) == SelectSeq(files, LAMBDA f : f.id # i)

RemoteAttach(id, file) ==
    /\ id \in DOMAIN remote
    /\ file.id \notin FileIds(remote[id])
    /\ Len(remote[id].files) < 2
    /\ remote' = [remote EXCEPT ![id] =
            Document(@.authors, @.title, @.type, Append(@.files, file))]
    /\ Changed

RemoteDetach(id, i) ==
    /\ id \in DOMAIN remote
    /\ i \in FileIds(remote[id])
    /\ remote' = [remote EXCEPT ![id] =
            Document(@.authors, @.title, @.type, Without(@.files, i))]
    /\ Changed

RemoteRename(id, i, name) ==
    /\ id \in DOMAIN remote
    /\ \E k \in 1..Len(remote[id].files) :
        /\ remote[id].files[k].id = i
        /\ remote[id].files[k].file_name # name
        /\ remote' = [remote EXCEPT ![id] =
                Document(@.authors, @.title, @.type,
                         [@.files EXCEPT ![k].file_name = name])]
    /\ Changed

\* The user changes the tree between two runs.
Tampered ==
    /\ Idle
    /\ ops < MaxOps
    /\ ops' = ops + 1
    /\ pc' = "idle"
    /\ UNCHANGED <<remote, clock, backup_info, new_backup_time, history,
                   removed_document_ids, modified_document_ids, new_document_ids,
                   temporary_stored_documents, doc, run0, events, runs>>

\* the user deletes a file, or a directory with all below it
DiskRemove(p) ==
    /\ p \in DOMAIN fs
    /\ fs' = rmtree(fs, p)
    /\ Tampered

\* the user puts a file of their own into a directory
DiskWrite(dir, name) ==
    /\ is_dir(fs, dir)
    /\ ~exists(fs, dir \o <<name>>)
    /\ fs' = write(fs, dir \o <<name>>, Bytes(<<"?">>))
    /\ Tampered

\* the user makes a directory of their own
DiskMkdir(dir, name) ==
    /\ is_dir(fs, dir)
    /\ ~exists(fs, dir \o <<name>>)
    /\ fs' = mkdir(fs, dir \o <<name>>)
    /\ Tampered

\* a Document Record is damaged (an interrupted write, an edit)
DiskCorrupt(p) ==
    /\ is_file(fs, p)
    /\ fs[p].data.t = "doc"
    /\ fs' = write(fs, p, [t |-> "bad"])
    /\ Tampered

\* the Backup State file is damaged (an interrupted write, an edit)
DiskCorruptState ==
    /\ is_file(fs, <<InfoJson>>)
    /\ fs[<<InfoJson>>].data.t = "backup"
    /\ fs' = write(fs, <<InfoJson>>, [t |-> "bad"])
    /\ Tampered

Downloaded(fsys) == {q \in DOMAIN fsys : fsys[q].kind = "file" /\ fsys[q].data.t = "bytes"}

\* document 1 with any files, alone or beside a document 2 with one file
InitFiles ==
    /\ fs = <<>>
    /\ \E fl \in FileLists,
          others \in SUBSET {<<File(S1("f"), n)>> : n \in {S1("x"), InfoJson, DotTemp}} :
        /\ Cardinality(others) <= 1
        /\ remote = [id \in {S1("1")} \cup {S1("2") : o \in others} |->
                        [authors |-> <<S1("A")>>,
                         title |-> IF id = S1("1") THEN S1("t") ELSE S1("u"),
                         year |-> Year, type |-> "working_paper", last_modified |-> 0,
                         files |-> IF id = S1("1") THEN fl ELSE CHOOSE o \in others : TRUE]]
    /\ InitLocals

NextFiles ==
    \/ runs < MaxFileRuns /\ Begin(DefaultPattern)
    \/ Classify
    \/ \E id \in modified_document_ids :
            \E o \in [1..Len(remote[id].files) -> Outcomes] : ModifiedDocument(id, o)
    \/ \E id \in new_document_ids :
            \E o \in [1..Len(remote[id].files) -> Outcomes] : NewDocument(id, o)
    \/ ResolveDocument
    \/ Finish
    \/ \E i \in FileIdsRemote, n \in FileNames : RemoteAttach(S1("1"), File(i, n))
    \/ \E i \in FileIdsRemote : RemoteDetach(S1("1"), i)
    \/ \E i \in FileIdsRemote, n \in FileNames : RemoteRename(S1("1"), i, n)
    \/ \E t \in Titles : RemoteUpdate(S1("1"), <<S1("A")>>, t)
    \/ \E p \in Downloaded(fs) : DiskRemove(p)

SpecFiles == InitFiles /\ [][NextFiles]_vars

----------------------------------------------------------------------------
(* The specification of the orphan sweep: one or two documents under the   *)
(* default pattern or a pattern that ends in a separator, a first run,     *)
(* then a user who adds, deletes and damages entries (the Backup State     *)
(* file among them) or a new remote document, then the next run, which may *)
(* be given the other pattern.                                             *)

TrailingPattern == <<"authors", "/", "title", "/">>
Patterns == {DefaultPattern, TrailingPattern}

Own == <<"o", "w", "n">>

RecordFiles(fsys) == {q \in DOMAIN fsys : fsys[q].kind = "file" /\ fsys[q].data.t = "doc"}
Dirs(fsys) == {<<>>} \cup {q \in DOMAIN fsys : fsys[q].kind = "dir"}

\* document 1 with one file, alone or beside a document 2 without files in the
\* same or another author directory
InitSweep ==
    /\ fs = <<>>
    /\ \E others \in SUBSET {<<S1("A")>>, <<S1("B")>>} :
        /\ Cardinality(others) <= 1
        /\ remote = [id \in {S1("1")} \cup {S1("2") : o \in others} |->
                        [authors |-> IF id = S1("1") THEN <<S1("A")>>
                                     ELSE CHOOSE o \in others : TRUE,
                         title |-> IF id = S1("1") THEN S1("t") ELSE S1("u"),
                         year |-> Year, type |-> "working_paper", last_modified |-> 0,
                         files |-> IF id = S1("1") THEN <<File(S1("f"), S1("x"))>>
                                   ELSE <<>>]]
    /\ InitLocals

NextSweep ==
    \/ \E pattern \in Patterns : runs < MaxFileRuns /\ Begin(pattern)
    \/ Classify
    \/ \E id \in new_document_ids :
            NewDocument(id, [k \in 1..Len(remote[id].files) |-> "ok"])
    \/ Finish
    \/ \E p \in DOMAIN fs \ {<<InfoJson>>} : DiskRemove(p)
    \/ \E dir \in Dirs(fs) : DiskWrite(dir, Own)
    \/ \E dir \in Dirs(fs) : DiskMkdir(dir, Own)
    \/ \E p \in RecordFiles(fs) : DiskCorrupt(p)
    \/ DiskCorruptState
    \/ RemoteCreate(S1("2"), <<S1("B")>>, S1("u"))

SpecSweep == InitSweep /\ [][NextSweep]_vars

----------------------------------------------------------------------------
(* The specification of time: two documents without files, and remote      *)
(* changes that arrive while a run is under way.                           *)

InitTime ==
    /\ fs = <<>>
    /\ remote = [id \in DocIds |->
                    [authors |-> <<S1("A")>>, title |-> id, year |-> Year,
                     type |-> "working_paper", last_modified |-> 0, files |-> <<>>]]
    /\ InitLocals

NextTime ==
    \/ Begin(DefaultPattern)
    \/ Classify
    \/ \E id \in modified_document_ids : ModifiedDocument(id, <<>>)
    \/ \E id \in new_document_ids : NewDocument(id, <<>>)
    \/ Finish
    \/ \E id \in DocIds, tick \in {0, 1} : RemoteUpdateDuringRun(id, tick)

SpecTime == InitTime /\ [][NextTime]_vars

----------------------------------------------------------------------------
(* The specification of the Backup State store: any BackupInfo value, the  *)
(* freshly created ones among them, is saved and then loaded.              *)

StoredPaths == {<<"A", "/", "7", " ", "-", " ", "t">>, <<"A", "/", "t", "/">>,
                DotTemp \o <<"/", "1">>}
Times == {-1, 0, 1, 2}

\* the BackupInfo values: last_backup_time -1 is None, the mapping is one-to-one
BackupInfos ==
    {info \in [pattern : Patterns, last_backup_time : Times,
               documents : UNION {[ids -> StoredPaths] : ids \in SUBSET DocIds}] :
        BidictIsOneToOne(info.documents)}

InitStore ==
    /\ fs = <<>>
    /\ remote = <<>>
    /\ clock = 0
    /\ pc = "idle"
    /\ new_backup_time = 0
    /\ history = <<>>
    /\ removed_document_ids = {}
    /\ modified_document_ids = {}
    /\ new_document_ids = {}
    /\ temporary_stored_documents = <<>>
    /\ doc = NoDoc
    /\ events = {}
    /\ runs = 0
    /\ ops = 0
    /\ \E info \in BackupInfos :
        /\ backup_info = info
        /\ run0 = [NoRun EXCEPT !.info = info]

\* backup_info.save(backup_info_path)
Save ==
    /\ pc = "idle"
    /\ fs' = SaveBackupInfo(fs, backup_info)
    /\ pc' = "saved"
    /\ UNCHANGED <<remote, clock, backup_info, new_backup_time, history,
                   removed_document_ids, modified_document_ids, new_document_ids,
                   temporary_stored_documents, doc, run0, events, runs, ops>>

\* BackupInfo.load(backup_info_path), which returns a BackupInfo or raises
Load ==
    /\ pc = "saved"
    /\ IF BackupInfoLoads(fs)
       THEN /\ backup_info' = LoadBackupInfo(fs)
            /\ pc' = "loaded"
       ELSE /\ backup_info' = backup_info
            /\ pc' = "load_raised"
    /\ UNCHANGED <<fs, remote, clock, new_backup_time, history,
                   removed_document_ids, modified_document_ids, new_document_ids,
                   temporary_stored_documents, doc, run0, events, runs, ops>>

NextStore == Save \/ Load

SpecStore == InitStore /\ [][NextStore]_vars

----------------------------------------------------------------------------
(* The specification of path rendering: one remote document with up to     *)
(* MaxAuthors authors, whose last names and title may hold the characters  *)
(* that are reserved in paths; its authors are formatted, or its path is   *)
(* rendered as execute() does for a new document.                          *)

MaxAuthors == 4

LastNames == {<<"A">>, <<"B", "/">>, <<"\\", "C">>}
ReservedTitles ==
    {<<"t">>, <<"/">>, <<"\\">>, <<":">>, <<"*">>, <<"?">>, <<"\"">>, <<"<">>, <<">">>,
     <<"|">>, <<"a", "/", "b">>, <<"a", "\\", "b">>}

InitRender ==
    /\ fs = <<>>
    /\ \E n \in 0..MaxAuthors : \E authors \in [1..n -> LastNames], title \in ReservedTitles :
        remote = (S1("1") :> [authors |-> authors, title |-> title, year |-> Year,
                              type |-> "working_paper", last_modified |-> 0,
                              files |-> <<>>])
    /\ InitLocals

\* Formatting.format_authors([a.last_name for a in document.authors])
FormatAuthors(id) ==
    /\ pc = "idle"
    /\ events' = {Event("authors", id, format_authors(remote[id].authors))}
    /\ pc' = "formatted"
    /\ UNCHANGED <<fs, remote, clock, backup_info, new_backup_time, history,
                   removed_document_ids, modified_document_ids, new_document_ids,
                   temporary_stored_documents, doc, run0, runs, ops>>

\* document_path = self._get_document_path(backup_info, doc)
Render(id) ==
    /\ pc = "idle"
    /\ backup_info' = [backup_info EXCEPT !.documents =
            Put(@, id, _get_document_path(backup_info, remote[id]))]
    /\ doc' = id
    /\ pc' = "rendered"
    /\ UNCHANGED <<fs, remote, clock, new_backup_time, history,
                   removed_document_ids, modified_document_ids, new_document_ids,
                   temporary_stored_documents, run0, events, runs, ops>>

NextRender == \E id \in DOMAIN remote : FormatAuthors(id) \/ Render(id)

SpecRender == InitRender /\ [][NextRender]_vars

----------------------------------------------------------------------------
(* Properties of the document-level engine (specification Spec)            *)

\* the tree without the Backup State file, and the mapping that file holds
Tree(fsys) == [q \in DOMAIN fsys \ {<<InfoJson>>} |-> fsys[q]]
Persisted(fsys) == fsys[<<InfoJson>>].data.documents

\* the path the current run renders for a remote document
Rendered(id) == _get_document_path(backup_info, remote[id])
Reserved(path) == is_relative_to(Parts(path), <<DotTemp>>)

RecordAt(fsys, path) == fsys[Parts(path) \o <<InfoJson>>].data
HoldsRecordOf(fsys, path, id) ==
    /\ is_file(fsys, Parts(path) \o <<InfoJson>>)
    /\ RecordAt(fsys, path).t = "doc"
    /\ RecordAt(fsys, path).document.id = id

\* C1 (Idempotence): a run that completes right after a completed run, with
\* no remote change between the two, logs no action other than None and
\* leaves the tree (directories, files, Document Records) and the document
\* mapping of the Backup State file as the first run left them.
C1_Idempotence ==
    (pc = "done" /\ run0.after_done) =>
        /\ \A id \in DOMAIN history : history[id].kind = "None"
        /\ Tree(fs) = Tree(run0.fs)
        /\ Persisted(fs) = Persisted(run0.fs)

Collide(a, b) == a # b /\ Rendered(a) = Rendered(b) /\ ~Reserved(Rendered(a))

\* C2 (Collision safety): in a run in which two remote documents render to
\* the same path P, the run does not fail, and once it is done at most one of
\* the two is in the Backup State; the one that is, is mapped to P and P
\* holds its own record (not overwritten, not merged); the one that is not
\* was dropped with the duplicate warning.
C2_CollisionSafety ==
    \A a, b \in DOMAIN remote : Collide(a, b) =>
        /\ pc # "aborted"
        /\ pc = "done" =>
            /\ ~({a, b} \subseteq DOMAIN backup_info.documents)
            /\ \A x \in {a, b} :
                IF x \in DOMAIN backup_info.documents
                THEN /\ backup_info.documents[x] = Rendered(x)
                     /\ HoldsRecordOf(fs, Rendered(x), x)
                ELSE Event("document_duplicate", x, <<>>) \in events

\* the ids the Backup State held at run start that the remote set lacks
RemovedIds == DOMAIN run0.info.documents \ DOMAIN remote
\* the removal loop is over and no document has been fetched yet
AfterRemovals == pc = "loop" /\ removed_document_ids = {} /\ doc = NoDoc
Ancestors(p) == {SubSeq(p, 1, k) : k \in 1..(Len(p) - 1)}
Restrict(fsys, p) == [q \in Subtree(fsys, p) |-> fsys[q]]

\* C6 (Removal): once the removal loop is over, every id that was in the
\* Backup State at run start and is absent from the remote set is out of the
\* Backup State and has exactly the action Remove(old path), up to the end of
\* the run; right after the loop its directory subtree is gone, no ancestor
\* of it is left empty, and every other tracked document has the mapping and
\* the directory subtree it had after the sweep.
C6_Removal ==
    (pc \in {"loop", "done"} /\ removed_document_ids = {}) =>
        \A id \in RemovedIds :
            /\ id \notin DOMAIN backup_info.documents
            /\ id \in DOMAIN history
            /\ history[id] = RemoveAction(id, run0.info.documents[id])
            /\ AfterRemovals =>
                /\ ~exists(fs, Parts(run0.info.documents[id]))
                /\ \A a \in Ancestors(Parts(run0.info.documents[id])) :
                        exists(fs, a) => iterdir(fs, a) # {}
                /\ \A o \in DOMAIN run0.info.documents \ RemovedIds :
                    /\ o \in DOMAIN backup_info.documents
                    /\ backup_info.documents[o] = run0.info.documents[o]
                    /\ Restrict(fs, Parts(run0.info.documents[o]))
                         = Restrict(run0.swept, Parts(run0.info.documents[o]))

\* a removed document whose directory existed and whose parent was pruned,
\* while another tracked document stays
C6_Witness ==
    /\ AfterRemovals
    /\ DOMAIN run0.info.documents \ RemovedIds # {}
    /\ \E id \in RemovedIds :
        /\ exists(run0.swept, Parts(run0.info.documents[id]))
        /\ ~exists(fs, Parent(Parts(run0.info.documents[id])))

\* the tracked, modified documents whose new path is free: not reserved,
\* claimed by no other id at run start and rendered by no other document
Movers ==
    {id \in DOMAIN run0.info.documents \cap DOMAIN remote :
        /\ remote[id].last_modified >= run0.info.last_backup_time
        /\ Rendered(id) # run0.info.documents[id]
        /\ ~Reserved(Rendered(id))
        /\ \A o \in DOMAIN run0.info.documents \ {id} :
                run0.info.documents[o] # Rendered(id)
        /\ \A o \in DOMAIN remote \ {id} : Rendered(o) # Rendered(id)}

\* C7 (Move): after a completed run, every tracked, modified document whose
\* new path was free is mapped to the new path by the Backup State, has a
\* MoveAndUpdate action, has its record in the new directory, and its old
\* directory is absent (unless another document now holds that path).
C7_Move ==
    pc = "done" => \A id \in Movers :
        /\ id \in DOMAIN backup_info.documents
        /\ backup_info.documents[id] = Rendered(id)
        /\ id \in DOMAIN history
        /\ history[id].kind = "MoveAndUpdate"
        /\ HoldsRecordOf(fs, Rendered(id), id)
        /\ \/ ~exists(fs, Parts(run0.info.documents[id]))
           \/ run0.info.documents[id] \in Range(backup_info.documents)

----------------------------------------------------------------------------
(* Properties of file handling (specification SpecFiles)                   *)

\* the document was modified since the backup time the run started with
Modified(id) == remote[id].last_modified >= run0.info.last_backup_time
\* the run is over, completed or stopped by an exception
Ended == pc \in {"done", "aborted"}
\* the file mapping of a remote file list: file id to file name
FileMap(files) ==
    [i \in {files[k].id : k \in 1..Len(files)} |->
        (CHOOSE f \in Range(files) : f.id = i).file_name]
Dir(id) == Parts(Rendered(id))
FailedDownload == \E e \in events : e.e \in {"download_early", "download_late"}

\* the rendered paths are pairwise distinct and not reserved
DistinctPaths ==
    \A a, b \in DOMAIN remote :
        /\ a # b => Rendered(a) # Rendered(b)
        /\ ~Reserved(Rendered(a))

\* the directory holds the remote file under its name, with its content
HoldsFile(fsys, dir, file) ==
    /\ is_file(fsys, joinpath(dir, file.file_name))
    /\ fsys[joinpath(dir, file.file_name)].data = Bytes(file.filehash)

InitialBackupDone ==
    /\ pc = "done"
    /\ format_summary(history) =
            [additions |-> Cardinality(DOMAIN remote), removals |-> 0,
             updates |-> 0, move_and_updates |-> 0]
    /\ backup_info.documents = [id \in DOMAIN remote |-> Rendered(id)]
    /\ Persisted(fs) = backup_info.documents
    /\ \A id \in DOMAIN remote :
        /\ is_dir(fs, Dir(id))
        /\ HoldsRecordOf(fs, Rendered(id), id)
        /\ \A k \in 1..Len(remote[id].files) :
                HoldsFile(fs, Dir(id), remote[id].files[k])

PlainNames ==
    \A id \in DOMAIN remote : \A j, k \in 1..Len(remote[id].files) :
        /\ remote[id].files[k].file_name \notin {InfoJson, DotTemp}
        /\ j # k => remote[id].files[j].file_name # remote[id].files[k].file_name

InPlace ==
    {id \in DOMAIN run0.info.documents \cap DOMAIN remote :
        Modified(id) /\ Rendered(id) = run0.info.documents[id]}

\* C8 (Update in place): a run with a tracked, modified document that renders
\* to its existing path completes, logs the action Update for it, leaves its
\* Backup State mapping as it was, and leaves at that path a Document Record
\* whose metadata snapshot and file mapping are the remote metadata and the
\* remote file set.
C8_UpdateInPlace ==
    Ended => \A id \in InPlace :
        /\ pc = "done"
        /\ id \in DOMAIN history
        /\ history[id] = UpdateAction(id, Rendered(id))
        /\ id \in DOMAIN backup_info.documents
        /\ backup_info.documents[id] = run0.info.documents[id]
        /\ HoldsRecordOf(fs, Rendered(id), id)
        /\ RecordAt(fs, Rendered(id))
                = DocumentInfoJson(id, remote[id], FileMap(remote[id].files))

\* the file mapping of the record the run found for the document
OldFiles(id) ==
    IF HoldsRecordOf(run0.swept, run0.info.documents[id], id)
    THEN RecordAt(run0.swept, run0.info.documents[id]).files
    ELSE <<>>
\* the recorded file ids that are no longer among the remote files
GoneFiles(id) == DOMAIN OldFiles(id) \ FileIds(remote[id])
NamesRemote(id) == {remote[id].files[k].file_name : k \in 1..Len(remote[id].files)}
\* the remote files that were recorded under their name and were on disk
Kept(id) ==
    {k \in 1..Len(remote[id].files) :
        /\ remote[id].files[k].id \in DOMAIN OldFiles(id)
        /\ OldFiles(id)[remote[id].files[k].id] = remote[id].files[k].file_name
        /\ HoldsFile(run0.swept, Dir(id), remote[id].files[k])}

\* C9 (File removal): a run that handles in place a document whose record
\* lists a file id that is no longer remote does not abort (not even when a
\* recorded file is missing on disk), reports the document as updated, leaves
\* the id out of the record and its file off the disk (unless a remote file
\* now has that name), and leaves every sibling file that is still remote on
\* disk and in the record.
C9_FileRemoval ==
    Ended => \A id \in InPlace : GoneFiles(id) # {} =>
        /\ pc = "done"
        /\ history[id].kind = "Update"
        /\ HoldsRecordOf(fs, Rendered(id), id)
        /\ \A g \in GoneFiles(id) :
            /\ g \notin DOMAIN RecordAt(fs, Rendered(id)).files
            /\ OldFiles(id)[g] \notin NamesRemote(id)
                    => ~exists(fs, joinpath(Dir(id), OldFiles(id)[g]))
        /\ \A k \in Kept(id) :
            /\ HoldsFile(fs, Dir(id), remote[id].files[k])
            /\ remote[id].files[k].id \in DOMAIN RecordAt(fs, Rendered(id)).files

\* C10 (A failed download is never fatal): whenever a download has failed,
\* before or after local bytes were written, handling it raised nothing that
\* stops the run, and no partial file is on disk.
C10_FailedDownloadNotFatal ==
    \A e \in events : e.e \in {"download_early", "download_late"} =>
        /\ Event("unlink_raised", e.doc, e.file) \notin events
        /\ \A q \in DOMAIN fs : fs[q].kind = "file" => fs[q].data # Partial

----------------------------------------------------------------------------
(* Properties of the orphan sweep (specification SpecSweep)                *)

\* the sweep of the run is over: it returned, or it raised and stopped the run
Swept ==
    \/ pc = "classify"
    \/ pc = "aborted" /\ Event("sweep_raised", <<>>, <<>>) \in events

\* the document paths of the Backup State, as locations
TrackedDirs == {Parts(d) : d \in Range(backup_info.documents)}
\* the file names the record of a document directory lists
Listed(fsys, d) ==
    IF is_file(fsys, d \o <<InfoJson>>) /\ fsys[d \o <<InfoJson>>].data.t = "doc"
    THEN Range(fsys[d \o <<InfoJson>>].data.files)
    ELSE {}

\* the record file of the document directory is there and lists nothing
\* that can be read
Unreadable(fsys, d) ==
    is_file(fsys, d \o <<InfoJson>>) /\ fsys[d \o <<InfoJson>>].data.t # "doc"

\* the entry is the root Backup State file, a tracked document directory, an
\* ancestor of one, or, in a tracked document directory, the record file or
\* below an entry the record lists (any entry, when the record is unreadable)
Accounted(fsys, q) ==
    \/ q = <<InfoJson>> /\ is_file(fsys, q)
    \/ q \in TrackedDirs /\ is_dir(fsys, q)
    \/ is_dir(fsys, q) /\ \E d \in TrackedDirs : IsPrefix(q, d)
    \/ \E d \in TrackedDirs :
        /\ IsPrefix(d, q) /\ q # d
        /\ \/ q[Len(d) + 1] \in {InfoJson} \cup Listed(fsys, d)
           \/ Unreadable(fsys, d)

\* C3 (Orphan sweep removes everything untracked): after the sweep at the
\* start of a run, the tree has no plain file outside a tracked document
\* directory but the root Backup State file, no directory that is neither a
\* tracked document path nor an ancestor of one, and in a tracked document
\* directory nothing but the record file and the files the record lists.
C3_SweepRemovesUntracked == Swept => \A q \in DOMAIN fs : Accounted(fs, q)

\* the tracked items of a tree: the root Backup State file, the document
\* directories of the Backup State, their record files and the files their
\* records list
TrackedItems(fsys) ==
    {q \in DOMAIN fsys :
        \/ q = <<InfoJson>>
        \/ q \in TrackedDirs /\ is_dir(fsys, q)
        \/ \E d \in TrackedDirs :
            /\ is_dir(fsys, d)
            /\ q \in {d \o <<InfoJson>>} \cup {d \o <<n>> : n \in Listed(fsys, d)}}

\* C4 (The orphan sweep never touches tracked items): whatever the Backup
\* State and the tree at the start of a run, every document directory of the
\* Backup State, its record file, every file its record lists and the root
\* Backup State file are still there after the sweep.
C4_SweepKeepsTracked == Swept => \A q \in TrackedItems(run0.fs) : q \in DOMAIN fs

----------------------------------------------------------------------------
(* Failed downloads and unparseable stores                                 *)

Attempts == {"download_ok", "download_early", "download_late"}

\* C11 (A failed download is retried): when a run has completed, no file
\* whose download failed in it is listed in the Document Record of its
\* document; and a run that follows a completed run with nothing changed in
\* between attempts again every download that failed in that run.
C11_FailedDownloadRetried ==
    /\ pc = "done" =>
        \A x \in FailedDownloads(events) :
            (/\ x[1] \in DOMAIN backup_info.documents
             /\ HoldsRecordOf(fs, backup_info.documents[x[1]], x[1]))
                => x[2] \notin DOMAIN RecordAt(fs, backup_info.documents[x[1]]).files
    /\ (Ended /\ run0.after_done) =>
        \A x \in run0.failed :
            \E e \in events : e.doc = x[1] /\ e.file = x[2] /\ e.e \in Attempts

\* a tracked document directory held an unparseable record file when the
\* run started
UnparseableAtStart == \E d \in TrackedDirs : Unreadable(run0.fs, d)

\* C12 (An unparseable Document Record never aborts a run): a run that
\* finds, in a tracked document directory, a record file that cannot be
\* parsed is not stopped by an exception, and once it is done the Backup
\* State file holds the document mapping of the run.
C12_UnparseableRecordNotFatal ==
    UnparseableAtStart =>
        /\ pc # "aborted"
        /\ pc = "done" => Persisted(fs) = backup_info.documents

\* the Backup State file exists and does not parse
Malformed(fsys) == exists(fsys, <<InfoJson>>) /\ ~BackupInfoLoads(fsys)

\* C13 (An unparseable Backup State file is fatal and harmless): a run that
\* finds a Backup State file that does not parse stops with the error before
\* the sweep and before any reconciliation step, and leaves the whole tree,
\* the Backup State file included, as it found it.
C13_UnparseableStateFatal ==
    (pc # "idle" /\ Malformed(run0.fs)) =>
        /\ pc = "aborted"
        /\ Event("backup_info_unparseable", <<>>, <<>>) \in events
        /\ fs = run0.fs

\* such a run on a tree that holds a document directory and an entry of the
\* user, which a sweep would delete
C13_Witness ==
    /\ pc = "aborted"
    /\ Malformed(run0.fs)
    /\ \E q \in DOMAIN fs : Name(q) = Own
    /\ \E q \in DOMAIN fs : Name(q) = InfoJson /\ Len(q) > 1

----------------------------------------------------------------------------
(* Properties of time (specification SpecTime)                             *)

\* the tracked documents that were changed at or after the time the previous
\* run captured and before the current run started
ChangedSince ==
    {id \in DOMAIN run0.info.documents \cap DOMAIN remote :
        /\ remote[id].last_modified >= run0.info.last_backup_time
        /\ remote[id].last_modified < run0.time}

\* C14: the last_backup_time in the Backup State file of a completed run is
\* the time captured when the run started, not the time of saving; and once
\* a run has classified the documents, no tracked document that was changed
\* at or after the time its predecessor captured is taken for unmodified.
C14_LastBackupTime ==
    /\ pc = "done" =>
        /\ fs[<<InfoJson>>].data.last_backup_time = run0.time
        /\ backup_info.last_backup_time = run0.time
    /\ pc \in {"loop", "done"} =>
        \A id \in ChangedSince :
            ~(id \in DOMAIN history /\ history[id].kind = "None")

\* a run that completed later than it started, with a document changed
\* after the time the previous run had captured, which it updates
C14_Witness ==
    /\ pc = "done"
    /\ clock > run0.time
    /\ \E id \in ChangedSince :
        /\ remote[id].last_modified > run0.info.last_backup_time
        /\ history[id].kind = "Update"

----------------------------------------------------------------------------
(* Properties of the pattern (specification SpecSweep)                     *)

\* the path the pattern the first run was given renders for a document
RenderedFirst(id) == _get_document_path([pattern |-> run0.first], remote[id])

\* C15 (The pattern of a backup location is immutable): whatever pattern
\* each run is given, every run that loads or creates its Backup State works
\* with the pattern the first run was given, renders the paths of the
\* documents it adds with it, and the Backup State file, whenever it parses,
\* holds that pattern.
C15_PatternImmutable ==
    /\ (runs >= 1 /\ ~Malformed(run0.fs)) =>
        /\ backup_info.pattern = run0.first
        /\ pc \in {"loop", "done"} =>
            \A id \in DOMAIN history \cap DOMAIN remote :
                history[id].kind = "Add" => history[id].path = RenderedFirst(id)
    /\ (runs >= 1 /\ BackupInfoLoads(fs)) => fs[<<InfoJson>>].data.pattern = run0.first

\* a completed run that was given another pattern than the first run and
\* added a document
C15_Witness ==
    /\ pc = "done"
    /\ runs >= 2
    /\ run0.pattern # run0.first
    /\ \E id \in DOMAIN history : history[id].kind = "Add"
    /\ fs[<<InfoJson>>].data.pattern = run0.first

----------------------------------------------------------------------------
(* Properties of the Backup State store (specification SpecStore)          *)

\* C16 (Backup State round-trip): for every Backup State value, the freshly
\* created ones with no last_backup_time included, save followed by load
\* returns a state with the same pattern, the same last_backup_time and the
\* same mapping of document ids to paths.
C16_RoundTrip ==
    pc \in {"loaded", "load_raised"} =>
        /\ pc = "loaded"
        /\ backup_info.pattern = run0.info.pattern
        /\ backup_info.last_backup_time = run0.info.last_backup_time
        /\ backup_info.documents = run0.info.documents

----------------------------------------------------------------------------
(* Properties of path rendering (specification SpecRender)                 *)

\* the authors field the claim describes
AuthorsField(a) ==
    CASE Len(a) = 0 -> <<"U", "n", "k", "n", "o", "w", "n">>
      [] Len(a) = 1 -> a[1]
      [] Len(a) = 2 -> a[1] \o <<" ", "&", " ">> \o a[2]
      [] Len(a) = 3 -> a[1] \o <<",", " ">> \o a[2] \o <<" ", "&", " ">> \o a[3]
      [] OTHER -> a[1] \o <<" ", "e", "t", " ", "a", "l", ".">>

\* C17 (Author formatting): the authors field is "Unknown" for no author,
\* the last name for one, the last names joined by ", " and, before the
\* last, by " & " for two or three, and the first last name followed by
\* " et al." for more than three.
C17_AuthorFormatting ==
    pc = "formatted" =>
        \A id \in DOMAIN remote :
            events = {Event("authors", id, AuthorsField(remote[id].authors))}

\* three authors: the longest list that is written out
C17_Witness ==
    /\ pc = "formatted"
    /\ \E id \in DOMAIN remote :
        /\ Len(remote[id].authors) = 3
        /\ events = {Event("authors", id, AuthorsField(remote[id].authors))}

\* the nine characters that are reserved in paths
ReservedCharacters == {"/", "\\", ":", "*", "?", "\"", "<", ">", "|"}
Sanitised(s) ==
    [i \in 1..Len(s) |-> IF s[i] \in ReservedCharacters THEN "_" ELSE s[i]]
CountReserved(s) == Cardinality({i \in 1..Len(s) : s[i] \in ReservedCharacters})

\* C18 (Character sanitation): the rendered path is the template with the
\* authors field and the title substituted after each of the nine reserved
\* characters in them was replaced by "_", so that it holds no path
\* separator and no other reserved character but those of the template.
C18_Sanitation ==
    pc = "rendered" =>
        /\ backup_info.documents[doc] =
                substitute(backup_info.pattern,
                    [authors |-> Sanitised(AuthorsField(remote[doc].authors)),
                     year |-> IntStr(remote[doc].year),
                     title |-> Sanitised(remote[doc].title)])
        /\ CountReserved(backup_info.documents[doc])
                = CountReserved(backup_info.pattern)

\* the remote documents whose rendered path falls under the staging namespace
ReservedDocuments == {id \in DOMAIN remote : Reserved(Rendered(id))}
TrackedAtStart(id) == id \in DOMAIN run0.info.documents

\* C19 (Reserved namespace, documents): when a run is done, a document whose
\* rendered path falls under .temp is in neither the Backup State in memory
\* nor the saved one and nothing is left under .temp; if the document was
\* tracked when the run began, no record of it is left in its old directory
\* and the run's history holds a Remove action for it with the old path.
C19_ReservedDocuments ==
    pc = "done" =>
        \A id \in ReservedDocuments :
            /\ id \notin DOMAIN backup_info.documents
            /\ id \notin DOMAIN Persisted(fs)
            /\ ~exists(fs, <<DotTemp>>)
            /\ TrackedAtStart(id) =>
                  /\ ~HoldsRecordOf(fs, run0.info.documents[id], id)
                  /\ id \in DOMAIN history
                  /\ history[id] = RemoveAction(id, run0.info.documents[id])


\* the remote files whose name would place them in the staging namespace
\* .temp of their document directory, as pairs of document id and file id
ReservedFiles ==
    UNION {{<<id, remote[id].files[k].id>> :
                k \in {j \in 1..Len(remote[id].files) :
                          remote[id].files[j].file_name = DotTemp}} :
           id \in DOMAIN remote}

\* C20 (Reserved namespace, files): in a run, no download is attempted for a
\* remote file whose name would place it inside .temp of its document
\* directory, handling that document does not stop the run, and when the
\* run is done the file is not listed in the Document Record of its
\* document and nothing is stored at .temp in the document directory.
C20_ReservedFiles ==
    pc \in {"loop", "done", "aborted"} =>
        \A x \in ReservedFiles :
            /\ \A e \in events : ~(e.doc = x[1] /\ e.file = x[2] /\ e.e \in Attempts)
            /\ pc = "aborted" => \A e \in events : e.doc # x[1]
            /\ (/\ pc = "done"
                /\ x[1] \in DOMAIN backup_info.documents
                /\ HoldsRecordOf(fs, backup_info.documents[x[1]], x[1]))
                  => /\ x[2] \notin DOMAIN RecordAt(fs, backup_info.documents[x[1]]).files
                     /\ ~exists(fs, Parts(backup_info.documents[x[1]]) \o <<DotTemp>>)

----------------------------------------------------------------------------
(* The specification of one save of the Backup State, step by step: the    *)
(* file is opened for writing, which empties it, the encoded text is       *)
(* written and flushed, in two parts when it exceeds the buffer, and the   *)
(* file is closed.  The process may be interrupted between any two steps.  *)

\* what the file holds after open(filename, 'w'), and after a first part of
\* the encoded text was flushed
EmptyText == [t |-> "empty"]
TruncatedText == [t |-> "truncated"]

\* the Backup State on disk is that of an earlier completed run, or none
InitSave ==
    /\ remote = <<>>
    /\ clock = 0
    /\ pc = "idle"
    /\ new_backup_time = 0
    /\ history = <<>>
    /\ removed_document_ids = {}
    /\ modified_document_ids = {}
    /\ new_document_ids = {}
    /\ temporary_stored_documents = <<>>
    /\ doc = NoDoc
    /\ events = {}
    /\ runs = 0
    /\ ops = 0
    /\ backup_info \in BackupInfos
    /\ \/ fs = <<>>
       \/ \E previous \in {i \in BackupInfos : i.last_backup_time >= 0} :
              fs = SaveBackupInfo(<<>>, previous)
    /\ run0 = [NoRun EXCEPT !.fs = fs]

SaveStep(from, to, fsys) ==
    /\ pc = from
    /\ pc' = to
    /\ fs' = fsys
    /\ UNCHANGED <<remote, clock, backup_info, new_backup_time, history,
                   removed_document_ids, modified_document_ids, new_document_ids,
                   temporary_stored_documents, doc, run0, events, runs, ops>>

\* BackupInfo.save, line 51: open(filename, 'w') creates or empties the file
SaveOpen == SaveStep("idle", "opened", write(fs, <<InfoJson>>, EmptyText))

\* line 53: f.write flushes a first part of a text longer than the buffer
SaveWritePart == SaveStep("opened", "part", write(fs, <<InfoJson>>, TruncatedText))

\* lines 52-53: the rest of the text is flushed when the with block closes f
SaveClose ==
    \/ SaveStep("opened", "saved", SaveBackupInfo(fs, backup_info))
    \/ SaveStep("part", "saved", SaveBackupInfo(fs, backup_info))

\* the process is stopped (a signal, a crash, a full disk) during save
Interrupt ==
    \E at \in {"idle", "opened", "part", "saved"} : SaveStep(at, "interrupted", fs)

NextSave == SaveOpen \/ SaveWritePart \/ SaveClose \/ Interrupt

SpecSave == InitSave /\ [][NextSave]_vars

\* C21 (Atomic save): when a save was interrupted, the backup location
\* holds what it held before the save, the complete previous Backup State
\* or none, or it holds the complete new Backup State.
C21_AtomicSave ==
    pc = "interrupted" =>
        \/ fs = run0.fs
        \/ fs = SaveBackupInfo(run0.fs, backup_info)

----------------------------------------------------------------------------
(* Properties of classification, staging resolution and file handling *)

Tracked == DOMAIN backup_info.documents
ModifiedClass == {id \in DOMAIN remote : /\ id \in Tracked
                                         /\ remote[id].last_modified >= backup_info.last_backup_time}
UnmodifiedClass == {id \in DOMAIN remote : /\ id \in Tracked
                                           /\ remote[id].last_modified < backup_info.last_backup_time}
NewClass == {id \in DOMAIN remote : id \notin Tracked}

\* C22 (Classification is a partition): the step that classifies puts every
\* remote document in exactly one class: modified if it is tracked and its
\* last_modified is at least last_backup_time, unmodified (a None action)
\* if it is tracked and its last_modified is smaller, new if it is not
\* tracked; the removed ids are the tracked ids that are not remote.
C22_Classification ==
    [][(pc = "classify" /\ pc' = "loop") =>
          /\ modified_document_ids' = ModifiedClass
          /\ history' = [id \in UnmodifiedClass |-> NoneAction(id)]
          /\ new_document_ids' = NewClass
          /\ removed_document_ids' = Tracked \ DOMAIN remote
          /\ modified_document_ids' \cup DOMAIN history' \cup new_document_ids'
                = DOMAIN remote
          /\ modified_document_ids' \cap DOMAIN history' = {}
          /\ modified_document_ids' \cap new_document_ids' = {}
          /\ DOMAIN history' \cap new_document_ids' = {}]_vars

\* a run has just classified a document changed at the very time of the
\* last backup as modified and another one as unmodified
C22_Witness ==
    /\ pc = "loop"
    /\ modified_document_ids = ModifiedClass
    /\ \E id \in modified_document_ids :
            remote[id].last_modified = backup_info.last_backup_time
    /\ UnmodifiedClass # {}
    /\ DOMAIN history = UnmodifiedClass

\* the staged document the resolution loop takes next, and the path it wants
ResolvingStep ==
    /\ LoopsDone
    /\ temporary_stored_documents # <<>>
    /\ temporary_stored_documents' = Tail(temporary_stored_documents)
StagedId == Head(temporary_stored_documents)[1]
DesiredPath == Head(temporary_stored_documents)[2]
ClaimedByOther(id, path) ==
    \E other \in DOMAIN backup_info.documents :
        other # id /\ backup_info.documents[other] = path

\* C23 (Staging resolution succeeds when the collision clears): when the
\* resolution loop takes a staged document whose desired path is claimed by
\* no other id, the step leaves the directory of the document at that path,
\* nothing at its staging slot, the Backup State mapping its id to the path
\* and its logged action recording the path, and the run goes on.
C23_ResolutionSucceeds ==
    [][(ResolvingStep /\ ~ClaimedByOther(StagedId, DesiredPath)) =>
          /\ pc' = "loop"
          /\ HoldsRecordOf(fs', DesiredPath, StagedId)
          /\ ~exists(fs', Parts(TempPath(StagedId)))
          /\ StagedId \in DOMAIN backup_info'.documents
          /\ backup_info'.documents[StagedId] = DesiredPath
          /\ StagedId \in DOMAIN history'
          /\ history'[StagedId].path = DesiredPath]_vars

\* the id that claims a path in the Backup State
Holder(path) == CHOOSE other \in DOMAIN backup_info.documents :
                    backup_info.documents[other] = path

\* C24 (Unresolved collision drops the loser without aborting): when the
\* resolution loop takes a staged document whose desired path is still
\* claimed by another id, the step removes the staged id from the Backup
\* State and discards its action, the document that holds the path keeps
\* its directory, its mapping and its action, and the run goes on.
C24_CollisionDropsLoser ==
    [][(ResolvingStep /\ ClaimedByOther(StagedId, DesiredPath)) =>
          /\ pc' = "loop"
          /\ StagedId \notin DOMAIN backup_info'.documents
          /\ StagedId \notin DOMAIN history'
          /\ Holder(DesiredPath) \in DOMAIN backup_info'.documents
          /\ backup_info'.documents[Holder(DesiredPath)] = DesiredPath
          /\ fs' = fs
          /\ [id \in DOMAIN history \ {StagedId} |-> history[id]]
                = [id \in DOMAIN history' \ {StagedId} |-> history'[id]]]_vars

\* the documents a run handles at their rendered path: the new ones and the
\* tracked, modified ones that stay where they are
NewDocuments == DOMAIN remote \ DOMAIN run0.info.documents
HandledAtPath == InPlace \cup NewDocuments
\* the file mapping the run found for a handled document
Found(id) == IF id \in NewDocuments THEN <<>> ELSE OldFiles(id)
\* the names recorded when the loop reaches the k-th remote file: those
\* found, overlaid with those of the remote files before it
Seen(id, k) ==
    [g \in DOMAIN Found(id) \cup {remote[id].files[j].id : j \in 1..(k - 1)} |->
        IF \E j \in 1..(k - 1) : remote[id].files[j].id = g
        THEN remote[id].files[CHOOSE j \in 1..(k - 1) : remote[id].files[j].id = g].file_name
        ELSE Found(id)[g]]
\* the k-th remote file has a name that is recorded for a different file id
Collides(id, k) ==
    \E g \in DOMAIN Seen(id, k) :
        g # remote[id].files[k].id /\ Seen(id, k)[g] = remote[id].files[k].file_name

\* no remote file is named as the record file or the staging directory
PlainFileNames ==
    \A id \in DOMAIN remote : \A k \in 1..Len(remote[id].files) :
        remote[id].files[k].file_name \notin {InfoJson, DotTemp}

\* C25 (File-level collision protocol): a run in which no download fails and
\* which handles a document with a remote file whose name is recorded for a
\* different file id of the document is not stopped by it; afterwards the
\* record of the document maps every file name to at most one file id, the
\* staging directory of the document is gone, and every remote file is
\* either recorded and stored under its name or absent from the record
\* while another file id holds its name.
C25_FileCollision ==
    (Ended /\ DistinctPaths /\ PlainFileNames /\ ~FailedDownload) =>
        \A id \in HandledAtPath :
            (\E k \in 1..Len(remote[id].files) : Collides(id, k)) =>
                /\ pc = "done"
                /\ HoldsRecordOf(fs, Rendered(id), id)
                /\ BidictIsOneToOne(RecordAt(fs, Rendered(id)).files)
                /\ ~exists(fs, Dir(id) \o <<DotTemp>>)
                /\ \A k \in 1..Len(remote[id].files) :
                    LET file == remote[id].files[k]
                        files == RecordAt(fs, Rendered(id)).files
                    IN  \/ /\ file.id \in DOMAIN files
                           /\ files[file.id] = file.file_name
                           /\ HoldsFile(fs, Dir(id), file)
                        \/ /\ file.id \notin DOMAIN files
                           /\ \E g \in DOMAIN files : files[g] = file.file_name

\* the tracked, modified documents of a run whose paths do not collide
HandledTracked ==
    {id \in DOMAIN run0.info.documents \cap DOMAIN remote : Modified(id)}
OldDir(id) == Parts(run0.info.documents[id])
\* the k-th remote file of the document is in the record the run found
Known(id, k) == remote[id].files[k].id \in DOMAIN OldFiles(id)
PreviousName(id, k) == OldFiles(id)[remote[id].files[k].id]
\* no other file of the document, recorded or remote, has the previous or
\* the current name of the k-th remote file
Undisturbed(id, k) ==
    LET names == {PreviousName(id, k), remote[id].files[k].file_name}
    IN  /\ \A g \in DOMAIN OldFiles(id) \ {remote[id].files[k].id} :
                OldFiles(id)[g] \notin names
        /\ \A j \in 1..Len(remote[id].files) \ {k} :
                remote[id].files[j].file_name \notin names
\* when the run began, the file was on disk under its recorded name with
\* the remote content
PresentAndMatching(id, k) ==
    HoldsFile(run0.swept, OldDir(id),
              [remote[id].files[k] EXCEPT !.file_name = PreviousName(id, k)])
Attempted(id, k) ==
    \E e \in events : /\ e.doc = id /\ e.file = remote[id].files[k].id
                      /\ e.e \in Attempts

\* C26 (Known files are downloaded only when needed): in a run that handles
\* a tracked document, no download is attempted for a remote file whose id
\* is in the record and that was on disk under its recorded name with a
\* matching checksum; when its remote name has changed and the run is done,
\* the file is stored under the new name with the same content, is gone
\* from the previous name and is recorded under the new name.
C26_DownloadOnlyWhenNeeded ==
    (pc \in {"loop", "done", "aborted"} /\ DistinctPaths) =>
        \A id \in HandledTracked : \A k \in 1..Len(remote[id].files) :
            (Known(id, k) /\ Undisturbed(id, k) /\ PresentAndMatching(id, k)) =>
                /\ ~Attempted(id, k)
                /\ (pc = "done" /\ PreviousName(id, k) # remote[id].files[k].file_name) =>
                      /\ HoldsFile(fs, Dir(id), remote[id].files[k])
                      /\ ~exists(fs, joinpath(Dir(id), PreviousName(id, k)))
                      /\ HoldsRecordOf(fs, Rendered(id), id)
                      /\ remote[id].files[k].id \in DOMAIN RecordAt(fs, Rendered(id)).files
                      /\ RecordAt(fs, Rendered(id)).files[remote[id].files[k].id]
                            = remote[id].files[k].file_name

\* a completed run has renamed a known file that was present and matching
\* and has downloaded nothing for it
C26_Witness ==
    /\ pc = "done"
    /\ DistinctPaths
    /\ \E id \in HandledTracked : \E k \in 1..Len(remote[id].files) :
        /\ Known(id, k) /\ Undisturbed(id, k) /\ PresentAndMatching(id, k)
        /\ PreviousName(id, k) # remote[id].files[k].file_name
        /\ HoldsFile(fs, Dir(id), remote[id].files[k])
        /\ ~Attempted(id, k)

----------------------------------------------------------------------------
(* The specification of damaged and missing items: document 1 with one     *)
(* file is backed up; between two runs a record is damaged, or a file, a   *)
(* record or a directory is deleted, and the document is changed, renamed  *)
(* or deleted remotely; the next run reconciles.                           *)

NextRecord ==
    \/ runs < MaxFileRuns /\ Begin(DefaultPattern)
    \/ Classify
    \/ \E id \in removed_document_ids : RemoveDocument(id)
    \/ \E id \in modified_document_ids \cap DOMAIN remote :
            \E o \in [1..Len(remote[id].files) -> Outcomes] : ModifiedDocument(id, o)
    \/ \E id \in new_document_ids \cap DOMAIN remote :
            \E o \in [1..Len(remote[id].files) -> Outcomes] : NewDocument(id, o)
    \/ Finish
    \/ \E p \in DOMAIN fs \ {<<InfoJson>>} : DiskRemove(p)
    \/ \E p \in RecordFiles(fs) : DiskCorrupt(p)
    \/ \E id \in DocIds : RemoteUpdateType(id)
    \/ \E t \in Titles : RemoteUpdate(S1("1"), <<S1("A")>>, t)
    \/ \E n \in FileNames : RemoteRename(S1("1"), S1("f"), n)
    \/ \E id \in DocIds : RemoteDelete(id)

SpecRecord == InitSweep /\ [][NextRecord]_vars

\* when the run began, the directory of the tracked document held no record
\* that can be read
RecordLost(id) ==
    /\ is_dir(run0.fs, OldDir(id))
    /\ ~HoldsRecordOf(run0.fs, run0.info.documents[id], id)
\* when the run began, the k-th remote file was on disk under its name with
\* the remote content
OnDiskAtStart(id, k) == HoldsFile(run0.fs, OldDir(id), remote[id].files[k])

\* C27 (Absent or unreadable record): in a run that handles a tracked
\* document whose Document Record is absent or unreadable, no download is
\* attempted for a remote file that was already on disk under its name with
\* a matching checksum, and when the run is done that file is still there
\* and the new record lists it.
C27_RecordLost ==
    Ended => \A id \in HandledTracked : \A k \in 1..Len(remote[id].files) :
        (RecordLost(id) /\ OnDiskAtStart(id, k)) =>
            /\ ~Attempted(id, k)
            /\ pc = "done" =>
                /\ HoldsFile(fs, Dir(id), remote[id].files[k])
                /\ HoldsRecordOf(fs, Rendered(id), id)
                /\ remote[id].files[k].id \in DOMAIN RecordAt(fs, Rendered(id)).files

\* the tracked documents that are no longer remote
RemovedTracked == DOMAIN run0.info.documents \ DOMAIN remote
\* when the run began, the Backup State named a directory that was absent
DirMissing(id) == ~exists(run0.fs, OldDir(id))
\* when the run began, the record named a file for the k-th remote file
\* that was absent
FileMissing(id, k) ==
    /\ Known(id, k)
    /\ Undisturbed(id, k)
    /\ ~exists(run0.fs, joinpath(OldDir(id), PreviousName(id, k)))

\* C28 (Missing expected path is recovered): a run in which no download
\* fails and which found no unreadable record is not stopped by a directory or a file that the Backup State or a
\* Document Record names and that is absent.  It drops a removed document
\* whose directory is absent; it leaves a handled document whose old
\* directory is absent with a directory and a record at its current path;
\* and it leaves a remote file whose recorded file is absent, renamed
\* remotely or not, on disk under its current name and recorded under it.
C28_MissingPathRecovered ==
    (Ended /\ DistinctPaths /\ PlainFileNames /\ ~FailedDownload /\ ~UnparseableAtStart) =>
        /\ \A id \in RemovedTracked : DirMissing(id) =>
                pc = "done" /\ id \notin DOMAIN backup_info.documents
        /\ \A id \in HandledTracked :
            /\ DirMissing(id) =>
                /\ pc = "done"
                /\ HoldsRecordOf(fs, Rendered(id), id)
                /\ \A k \in 1..Len(remote[id].files) :
                        HoldsFile(fs, Dir(id), remote[id].files[k])
            /\ \A k \in 1..Len(remote[id].files) : FileMissing(id, k) =>
                /\ pc = "done"
                /\ HoldsFile(fs, Dir(id), remote[id].files[k])
                /\ HoldsRecordOf(fs, Rendered(id), id)
                /\ remote[id].files[k].id \in DOMAIN RecordAt(fs, Rendered(id)).files
                /\ RecordAt(fs, Rendered(id)).files[remote[id].files[k].id]
                        = remote[id].files[k].file_name

\* the tracked documents whose remote timestamp is before last_backup_time
UnmodifiedAtStart ==
    {id \in DOMAIN run0.info.documents \cap DOMAIN remote :
        remote[id].last_modified < run0.info.last_backup_time}

\* C29 (Unmodified documents are left alone): from the classification of a
\* run to its end, completed or not, every tracked document whose remote
\* timestamp is before last_backup_time has the action None, the Backup
\* State mapping it had, and the directory subtree, files and record
\* included, that the sweep left; a completed run saves that mapping.
C29_UnmodifiedLeftAlone ==
    pc \in {"loop", "done"} \/ (pc = "aborted" /\ doc # NoDoc) =>
        \A id \in UnmodifiedAtStart :
            /\ id \in DOMAIN history
            /\ history[id] = NoneAction(id)
            /\ id \in DOMAIN backup_info.documents
            /\ backup_info.documents[id] = run0.info.documents[id]
            /\ Restrict(fs, OldDir(id)) = Restrict(run0.swept, OldDir(id))
            /\ pc = "done" =>
                /\ id \in DOMAIN Persisted(fs)
                /\ Persisted(fs)[id] = run0.info.documents[id]

\* a completed run has left an unmodified document alone while it removed,
\* moved or dropped another tracked document
C29_Witness ==
    /\ pc = "done"
    /\ \E id \in UnmodifiedAtStart :
        /\ is_dir(fs, OldDir(id))
        /\ \E o \in DOMAIN run0.info.documents \ {id} :
              \/ o \notin DOMAIN backup_info.documents
              \/ backup_info.documents[o] # run0.info.documents[o]

\* the Backup State file of a tree, if there is one
StateFile(fsys) ==
    IF <<InfoJson>> \in DOMAIN fsys THEN fsys[<<InfoJson>>] ELSE [kind |-> "none"]
\* the run is past its start and has not completed
Underway == pc \in {"classify", "loop", "aborted"}

\* C30 (The Backup State is persisted once per run and last): while a run
\* is under way and when it has aborted, the Backup State file is what it
\* was when the run began; the only step of a run that changes the file is
\* the step that completes it, taken when the loops over the removed, the
\* modified, the new and the staged documents are over, and it leaves no
\* staging directory and a file that holds the Backup State in memory.
C30_PersistedOnceAndLast ==
    /\ [](Underway => StateFile(fs) = StateFile(run0.fs))
    /\ [][StateFile(fs') # StateFile(fs) =>
            /\ LoopsDone
            /\ temporary_stored_documents = <<>>
            /\ pc' = "done"
            /\ ~exists(fs', <<DotTemp>>)
            /\ StateFile(fs') = FileNode(BackupInfoJson(backup_info'))]_vars

\* a run that follows a completed run has changed the Backup State in
\* memory and has aborted; the file holds what the completed run saved
C30_Witness ==
    /\ pc = "aborted"
    /\ run0.info.last_backup_time >= 0
    /\ is_file(fs, <<InfoJson>>)
    /\ Persisted(fs) = run0.info.documents
    /\ backup_info.documents # run0.info.documents

----------------------------------------------------------------------------
(* Properties of the records, the action log and the staging namespace *)

\* C31 (The Document Record is saved after all file operations): once a
\* run has attempted a download for a document whose files have plain
\* names, whether the download succeeded or failed, the handling of that
\* document has gone on to its end and has saved the record of the document.
C31_RecordSavedLast ==
    (pc \in {"loop", "done", "aborted"} /\ PlainFileNames) =>
        \A e \in events : e.e \in Attempts =>
            Event("record_saved", e.doc, <<>>) \in events

\* the kind of action that matches what a run does to a document
ExpectedKind(id) ==
    IF id \notin DOMAIN remote THEN "Remove"
    ELSE IF id \notin DOMAIN run0.info.documents THEN "Add"
    ELSE IF ~Modified(id) THEN "None"
    ELSE IF Rendered(id) = run0.info.documents[id] THEN "Update"
    ELSE IF Reserved(Rendered(id)) THEN "Remove"
    ELSE "MoveAndUpdate"
Touched == DOMAIN remote \cup RemovedIds
KindsMatch(ids) ==
    /\ DOMAIN history = ids
    /\ \A id \in ids : history[id].kind = ExpectedKind(id)
    /\ format_summary(history) =
            [additions |-> Cardinality({id \in ids : ExpectedKind(id) = "Add"}),
             removals |-> Cardinality({id \in ids : ExpectedKind(id) = "Remove"}),
             updates |-> Cardinality({id \in ids : ExpectedKind(id) = "Update"}),
             move_and_updates |->
                Cardinality({id \in ids : ExpectedKind(id) = "MoveAndUpdate"})]

\* C32 as stated (One action per touched document): when a run is done,
\* every remote document and every removed id has one action in the log, of
\* the kind that matches what the run did to it, and the summary counts the
\* actions of each kind.
C32_OneActionEach == pc = "done" => KindsMatch(Touched)

\* the documents a run leaves out of its log: those it dropped as
\* duplicates and the new ones it rejected for a reserved path
Dropped == {id \in DOMAIN remote : Event("document_duplicate", id, <<>>) \in events}
RejectedNew ==
    {id \in DOMAIN remote \ DOMAIN run0.info.documents : Reserved(Rendered(id))}

\* C32 amended (One action per touched document): the same, for every
\* removed id and every remote document but those the run dropped as
\* duplicates, whose action it discards, and the new ones it rejected for a
\* reserved path, for which it logs nothing.
C32_OneActionEachAmended ==
    pc = "done" => KindsMatch(Touched \ (Dropped \cup RejectedNew))

\* a completed run that dropped a duplicate and logged another document
C32_Witness ==
    /\ pc = "done"
    /\ Dropped # {}
    /\ history # <<>>
    /\ KindsMatch(Touched \ (Dropped \cup RejectedNew))


\* C33 (A MoveAndUpdate action records both paths): when a run is done,
\* the action of every moved document has as old_path the path the document
\* had in the Backup State before the run and as path the path it has
\* after the run, and the two differ.
C33_MoveRecordsBothPaths ==
    pc = "done" =>
        \A id \in DOMAIN history :
            history[id].kind = "MoveAndUpdate" =>
                /\ id \in DOMAIN run0.info.documents
                /\ id \in DOMAIN backup_info.documents
                /\ history[id].old_path = run0.info.documents[id]
                /\ history[id].path = backup_info.documents[id]
                /\ history[id].old_path # history[id].path


\* C34 (The Backup State mapping is one-to-one): in every state of every
\* run no two document ids map to the same path, and no step takes the
\* path of an id away from it to give it to another id.
C34_OneToOne ==
    /\ [](BidictIsOneToOne(backup_info.documents))
    /\ [][\A k \in DOMAIN backup_info.documents :
            \A k2 \in DOMAIN backup_info'.documents \ {k} :
                backup_info'.documents[k2] = backup_info.documents[k] =>
                    /\ k2 \in DOMAIN backup_info.documents
                    /\ backup_info.documents[k2] = backup_info.documents[k]]_vars


\* a run that found the path of a staged document still claimed: the holder
\* keeps it and the staged document has no entry
C34_Witness ==
    /\ BidictIsOneToOne(backup_info.documents)
    /\ \E id \in DOMAIN remote :
        /\ Event("document_duplicate", id, <<>>) \in events
        /\ id \notin DOMAIN backup_info.documents
        /\ \E k \in DOMAIN backup_info.documents \ {id} :
            backup_info.documents[k] = Rendered(id)


\* C35 (The staging namespace is empty between runs): when a run is done
\* there is no .temp directory at the backup root, nor inside the directory
\* of any document of the Backup State.
C35_NoStagingLeft ==
    pc = "done" =>
        /\ ~exists(fs, <<DotTemp>>)
        /\ \A id \in DOMAIN backup_info.documents :
            ~exists(fs, Parts(backup_info.documents[id]) \o <<DotTemp>>)


\* a completed run that staged a document and dropped it as a duplicate,
\* after which no .temp directory is left
C35_Witness ==
    /\ pc = "done"
    /\ \E id \in DOMAIN remote : Event("document_duplicate", id, <<>>) \in events
    /\ ~exists(fs, <<DotTemp>>)
    /\ \A id \in DOMAIN backup_info.documents :
        ~exists(fs, Parts(backup_info.documents[id]) \o <<DotTemp>>)


\* C36 (No staging path is ever persisted): in the Backup State file that
\* a completed run has written, no document id maps to a path under the
\* staging namespace .temp.
C36_NoStagingPathPersisted ==
    pc = "done" => \A id \in DOMAIN Persisted(fs) : ~Reserved(Persisted(fs)[id])


\* every entry of the persisted Backup State names a directory that holds
\* the Document Record of that id
PersistedMatchesDisk(fsys) ==
    \A id \in DOMAIN Persisted(fsys) :
        /\ is_dir(fsys, Parts(Persisted(fsys)[id]))
        /\ HoldsRecordOf(fsys, Persisted(fsys)[id], id)

\* C37 (The persisted state matches the disk): when a run is done, every
\* id to path entry of the persisted Backup State names a directory that
\* exists and holds a Document Record with that id; and once the next run
\* has swept the orphans, this still holds of the Backup State file and the
\* swept tree.
C37_PersistedMatchesDisk ==
    /\ pc = "done" => PersistedMatchesDisk(fs)
    /\ (pc = "classify" /\ run0.after_done) =>
            PersistedMatchesDisk(run0.swept)


\* C38 (Resolving a staged document changes only that document): a step
\* of the resolution loop that resolves or drops one staged document leaves
\* the Backup State entry and the logged action of every other document as
\* they were.
C38_ResolutionIsLocal ==
    [][(ResolvingStep /\ pc' = pc) =>
          /\ Drop(backup_info'.documents, StagedId)
                = Drop(backup_info.documents, StagedId)
          /\ Drop(history', StagedId) = Drop(history, StagedId)]_vars


\* the directory of a remote document holds the record file and the current
\* remote files of the document, and nothing else
HoldsExactly(fsys, id) ==
    /\ is_dir(fsys, Dir(id))
    /\ HoldsRecordOf(fsys, Rendered(id), id)
    /\ \A k \in 1..Len(remote[id].files) : HoldsFile(fsys, Dir(id), remote[id].files[k])
    /\ \A q \in Subtree(fsys, Dir(id)) \ {Dir(id)} :
        \/ q = Dir(id) \o <<InfoJson>>
        \/ \E k \in 1..Len(remote[id].files) :
            q = joinpath(Dir(id), remote[id].files[k].file_name)

\* C39 (Convergence): when a run is done in which every download succeeded
\* and the current remote documents render to pairwise distinct paths, none
\* reserved, the persisted Backup State maps exactly the ids of the remote
\* documents, each to the path rendered from its current metadata, and each
\* document directory holds exactly the record file and the current remote
\* files of the document.
C39_Convergence ==
    (pc = "done" /\ ~FailedDownload /\ DistinctPaths) =>
        /\ Persisted(fs) = [id \in DOMAIN remote |-> Rendered(id)]
        /\ \A id \in DOMAIN remote : HoldsExactly(fs, id)

====
